---------------------------- MODULE Spec2Model ----------------------------
(***************************************************************************)
(* Verification model of the hazelcast-go-client core:                     *)
(*   - the Client lifecycle orchestrator (src/unnamed/part_000),           *)
(*   - the Connection reader / writer / close (src/internal/connection.go).*)
(* Each goroutine is a process with a program counter; every action is one *)
(* atomic step of the Go code (an atomic operation, a channel operation or *)
(* a call into a collaborator).                                            *)
(***************************************************************************)
EXTENDS Naturals, Integers, Sequences, FiniteSets, TLC

VARIABLES
  \* ---- Client (src/unnamed/part_000) ----
  state,        \* Client.state (atomic int32)
  reached,      \* history: the lifecycle states the field has held
  spc, sret,    \* start() callers: program counter, returned error
  dpc, dret,    \* Shutdown() callers: program counter, returned error
  dcas,         \* history: the state was ready or later when the caller's CAS ran
  apc, aret,    \* accessor callers: program counter, result
  akind,        \* which accessor the caller invoked
  aread,        \* the state the accessor loaded
  pmCalled,     \* the proxyManager method an accessor caller invoked
  starts,       \* component -> number of Start calls
  stops,        \* component -> number of Stop calls
  cmFailed,     \* history: connectionManager.Start returned an error
  published,    \* history: lifecycle events accepted by eventDispatcher
  handlerLog,   \* config lifecycle handler -> events it received
  received,     \* handler added by AddLifecycleListener or
                \* AddMembershipListener -> events it received
  overlap,      \* history: a Shutdown won its CAS before start returned
  \* ---- Connection (src/internal/connection.go) ----
  status,       \* Connection.status (atomic int32): 0 alive, 1 closed
  closedCh,     \* number of close(connection.closed) executed (2 = panic)
  closedTime,   \* Connection.closedTime holds a close time
  notified,     \* number of connectionManager.connectionClosed calls
  cpc,          \* close() callers: program counter (caller 0 is the reader)
  cwon,         \* history: the close() caller won the CAS on status
  pending,      \* Connection.pending: buffered channel of frames
  mpc, mret,    \* send() callers: program counter, returned bool
  accepted,     \* history: frames in the order send enqueued them
  wpc,          \* writePool worker: program counter
  request,      \* writePool: the frame taken from pending
  writeIndex,   \* write: index of the first unwritten byte (0-based)
  remainingLen, \* write: bytes still to write
  socketOut,    \* history: bytes the socket accepted, in order
  socketBroken, \* the socket has failed a write
  sendingError, \* Connection.sendingError channel
  lastWrite,    \* Connection.lastWrite holds a write time
  stream,       \* the bytes the peer sends, in order
  nread,        \* number of bytes of stream already read from the socket
  readBuffer,   \* Connection.readBuffer
  rpc,          \* read worker: program counter
  delivered,    \* history: frames handed to clientMessageBuilder.onMessage
  npc,          \* newConnection: program counter of the constructing caller
  assigned,     \* the attributes of the Connection that hold a value
  \* ---- near-cached map (src/unnamed/part_001) ----
  remote,       \* the value the cluster holds for the key (0: no entry)
  format,       \* the in-memory format of the near cache: "binary" or "object"
  ncm,          \* newNearCacheMap: program counter, configuration, result
  records,      \* the near cache: cache key -> record
  nextRid,      \* the near cache's reservation id counter
  staleRecord,  \* history: the record was present when an invalidation event
                \* for its key was handled
  gapRecord,    \* history: the record was present when an event that left a
                \* sequence gap in its partition was handled
  gets,         \* Get callers: program counter, locals and history
  writes,       \* callers of the mutating operations
  contains,     \* ContainsKey callers
  serverSeq,    \* the partition's invalidation sequence at the cluster
  inbox,        \* invalidation events on their way to the client
  lastSeen,     \* history: the largest sequence of the events handled
  \* ---- CP proxies (src/internal/cp/proxy_factory.go, src/cp/proxy_manager.go) ----
  cpCalls,      \* GetAtomicLong callers: name, program counter, locals, result
  proxies,      \* ProxyManager.proxies: the cached proxies
  nextProxy,    \* the identity of the next proxy object created
  \* ---- driver.QueryResult (src/examples/cp/atomic_long.go) ----
  qr,           \* the QueryResult: page, index, state; the member's pages
  nexts,        \* the caller of Next: program counter, last result
  closes,       \* Close callers: program counter, result and history
  \* ---- lifecycle and membership listeners (src/unnamed/part_000) ----
  subs,         \* userEventDispatcher: the subscriptions (event, id, handler)
  lifecyleListenerMap,      \* Client.lifecyleListenerMap: UUID -> id
  membershipListenerMap,    \* Client.membershipListenerMap: UUID -> id
  refID,        \* Client.refIDGen: the last id handed out
  nextUUID,     \* the next UUID types.NewUUID returns
  mapMu,        \* the holder of each listener map's mutex (0: free)
  lcalls,       \* callers of the Add and Remove listener methods
  clusterLog,   \* history: the events the cluster services published
  \* ---- nearcache.Stats (src/nearcache/types.go) ----
  stats         \* a Stats value (Hits, Misses) and the result of Ratio()

clientVars == <<state, reached, spc, sret, dpc, dret, dcas, apc, aret, akind,
                aread, pmCalled, starts, stops, cmFailed, published,
                handlerLog, received, overlap>>

connVars == <<status, closedCh, closedTime, notified, cpc, cwon, pending, mpc,
              mret, accepted, wpc, request, writeIndex, remainingLen,
              socketOut, socketBroken, sendingError, lastWrite, stream, nread,
              readBuffer, rpc, delivered>>

cacheVars == <<remote, format, ncm, records, nextRid, staleRecord, gapRecord,
               gets, writes, contains, serverSeq, inbox, lastSeen>>

cpVars == <<cpCalls, proxies, nextProxy>>

queryVars == <<qr, nexts, closes>>

listenerVars == <<subs, lifecyleListenerMap, membershipListenerMap, refID,
                  nextUUID, mapMu, lcalls, clusterLog>>

\* what the actions of one component leave alone
otherVars == <<queryVars, stats, listenerVars, assigned>>
outsideClient == <<connVars, npc, cacheVars, cpVars, otherVars>>
outsideConnection == <<clientVars, cacheVars, cpVars, otherVars>>
outsideCache == <<clientVars, connVars, npc, cpVars, otherVars>>
outsideCp == <<clientVars, connVars, npc, cacheVars, otherVars>>
outsideQuery == <<clientVars, connVars, npc, cacheVars, cpVars, stats,
                  listenerVars, assigned>>
outsideStats == <<clientVars, connVars, npc, cacheVars, cpVars, queryVars,
                  listenerVars, assigned>>
outsideListeners == <<connVars, npc, cacheVars, cpVars, queryVars, stats,
                      assigned>>
outsideNewConnection == <<clientVars, cacheVars, cpVars, queryVars, stats,
                          listenerVars>>

vars == <<clientVars, connVars, npc, cacheVars, cpVars, otherVars>>

-----------------------------------------------------------------------------
(* Bounds of the model *)
NumStart == 2
NumShutdown == 2
NumAccessor == 1
NumConfigHandlers == 1

StartCallers == 1..NumStart
ShutdownCallers == 1..NumShutdown
AccessorCallers == 1..NumAccessor
ConfigHandlers == 1..NumConfigHandlers

-----------------------------------------------------------------------------
(* Lifecycle states: const ( created int32 = iota ... ) *)
created == 0
starting == 1
ready == 2
stopping == 3
stopped == 4

ErrClientCannotStart == "ErrClientCannotStart"
ErrClientNotReady == "ErrClientNotReady"

LifecycleStateStarting == "starting"
LifecycleStateStarted == "started"
LifecycleStateShuttingDown == "shutting-down"
LifecycleStateShutDown == "shut-down"

Components == {"invocationService", "clusterService", "connectionManager",
               "eventDispatcher", "userEventDispatcher"}

Accessors == {"GetMap", "GetReplicatedMap", "GetQueue", "GetTopic", "GetList"}

\* the proxyManager method each accessor delegates to
ProxyManagerMethod(k) ==
  CASE k = "GetMap" -> "getMap"
    [] k = "GetReplicatedMap" -> "getReplicatedMap"
    [] k = "GetQueue" -> "getQueue"
    [] k = "GetTopic" -> "getTopic"
    [] k = "GetList" -> "getList"

-----------------------------------------------------------------------------
(* Event dispatchers.  The dispatch service is not part of the sources; it *)
(* follows the specification: a synchronous subscriber runs inline on      *)
(* Publish, and a stopped dispatcher refuses further publishes.            *)

DispatcherRunning(d) == stops[d] = 0

\* event names
eventLifecycleEventStateChanged == "lifecyclestatechanged"
EventMembersAdded == "membersadded"
EventMembersRemoved == "membersremoved"

\* the user dispatcher holds a subscription of the handler for the event
Subscribed(event, h) ==
  \E s \in subs : s.event = event /\ s.handler = h

\* userEventDispatcher.Publish(ev): the lifecycle handlers added by
\* addConfigEvents are synchronous subscribers of the user dispatcher.
UserPublish(ev) ==
  IF DispatcherRunning("userEventDispatcher")
    THEN /\ handlerLog' = [h \in ConfigHandlers |->
              IF Subscribed(eventLifecycleEventStateChanged, h)
                THEN Append(handlerLog[h], ev) ELSE handlerLog[h]]
         /\ received' = [h \in DOMAIN received |->
              IF Subscribed(eventLifecycleEventStateChanged, h)
                THEN Append(received[h], ev) ELSE received[h]]
    ELSE UNCHANGED <<handlerLog, received>>

\* eventDispatcher.Publish(newLifecycleStateChanged(ev)): subscribeUserEvents
\* forwards every lifecycle event synchronously to the user dispatcher.
Publish(ev) ==
  IF DispatcherRunning("eventDispatcher")
    THEN /\ published' = Append(published, ev)
         /\ UserPublish(ev)
    ELSE UNCHANGED <<published, handlerLog, received>>

Start(c) == starts' = [starts EXCEPT ![c] = @ + 1]
Stop(c) == stops' = [stops EXCEPT ![c] = @ + 1]

\* atomic.StoreInt32(&c.state, s)
StoreState(s) ==
  /\ state' = s
  /\ reached' = reached \cup {s}

-----------------------------------------------------------------------------
(* Client.start *)

\* mutant: a client that has stopped can be started again
StartMayProceed_Restartable(s) == s = created \/ s = stopped

\* the old value start's compare-and-swap expects: CompareAndSwapInt32(&c.state, created, starting)
StartMayProceed(s) == s = created

\* if !atomic.CompareAndSwapInt32(&c.state, created, starting) { return ErrClientCannotStart }
StartCAS(t) ==
  /\ spc[t] = "call"
  /\ IF StartMayProceed(state)
       THEN /\ StoreState(starting)
            /\ spc' = [spc EXCEPT ![t] = "pubStarting"]
            /\ UNCHANGED sret
       ELSE /\ spc' = [spc EXCEPT ![t] = "done"]
            /\ sret' = [sret EXCEPT ![t] = ErrClientCannotStart]
            /\ UNCHANGED <<state, reached>>
  /\ UNCHANGED <<dpc, dret, dcas, apc, aret, akind, aread, pmCalled, starts,
                 stops, cmFailed, published, handlerLog, received, overlap>>
  /\ UNCHANGED outsideClient

\* c.eventDispatcher.Publish(newLifecycleStateChanged(LifecycleStateStarting))
StartPublishStarting(t) ==
  /\ spc[t] = "pubStarting"
  /\ Publish(LifecycleStateStarting)
  /\ spc' = [spc EXCEPT ![t] = "csStart"]
  /\ UNCHANGED <<state, reached, sret, dpc, dret, dcas, apc, aret, akind,
                 aread, pmCalled, starts, stops, cmFailed, overlap>>
  /\ UNCHANGED outsideClient

\* c.clusterService.Start()
StartClusterService(t) ==
  /\ spc[t] = "csStart"
  /\ Start("clusterService")
  /\ spc' = [spc EXCEPT ![t] = "cmStart"]
  /\ UNCHANGED <<state, reached, sret, dpc, dret, dcas, apc, aret, akind,
                 aread, pmCalled, stops, cmFailed, published, handlerLog, received,
                 overlap>>
  /\ UNCHANGED outsideClient

\* mutant: the error of connectionManager.Start is ignored
StartConnectionManager_IgnoreError(t) ==
  /\ spc[t] = "cmStart"
  /\ Start("connectionManager")
  /\ \E ok \in BOOLEAN :
       /\ cmFailed' = (cmFailed \/ ~ok)
       /\ spc' = [spc EXCEPT ![t] = "store"]
  /\ UNCHANGED <<state, reached, sret, dpc, dret, dcas, apc, aret, akind,
                 aread, pmCalled, stops, published, handlerLog, received, overlap>>
  /\ UNCHANGED outsideClient

\* if err := c.connectionManager.Start(1 * time.Minute); err != nil { ... }
\* The outcome of connecting to the cluster is an input.
StartConnectionManager(t) ==
  /\ spc[t] = "cmStart"
  /\ Start("connectionManager")
  /\ \E ok \in BOOLEAN :
       /\ cmFailed' = (cmFailed \/ ~ok)
       /\ spc' = [spc EXCEPT ![t] = IF ok THEN "store" ELSE "failCsStop"]
  /\ UNCHANGED <<state, reached, sret, dpc, dret, dcas, apc, aret, akind,
                 aread, pmCalled, stops, published, handlerLog, received, overlap>>
  /\ UNCHANGED outsideClient

\* failure branch: c.clusterService.Stop()
StartFailStopCluster(t) ==
  /\ spc[t] = "failCsStop"
  /\ Stop("clusterService")
  /\ spc' = [spc EXCEPT ![t] = "failEdStop"]
  /\ UNCHANGED <<state, reached, sret, dpc, dret, dcas, apc, aret, akind,
                 aread, pmCalled, starts, cmFailed, published, handlerLog, received,
                 overlap>>
  /\ UNCHANGED outsideClient

\* failure branch: c.eventDispatcher.Stop()
StartFailStopDispatcher(t) ==
  /\ spc[t] = "failEdStop"
  /\ Stop("eventDispatcher")
  /\ spc' = [spc EXCEPT ![t] = "failUedStop"]
  /\ UNCHANGED <<state, reached, sret, dpc, dret, dcas, apc, aret, akind,
                 aread, pmCalled, starts, cmFailed, published, handlerLog, received,
                 overlap>>
  /\ UNCHANGED outsideClient

\* failure branch: c.userEventDispatcher.Stop(); return err
StartFailStopUserDispatcher(t) ==
  /\ spc[t] = "failUedStop"
  /\ Stop("userEventDispatcher")
  /\ spc' = [spc EXCEPT ![t] = "done"]
  /\ sret' = [sret EXCEPT ![t] = "err"]
  /\ UNCHANGED <<state, reached, dpc, dret, dcas, apc, aret, akind, aread,
                 pmCalled, starts, cmFailed, published, handlerLog, received, overlap>>
  /\ UNCHANGED outsideClient

\* atomic.StoreInt32(&c.state, ready)
StartStoreReady(t) ==
  /\ spc[t] = "store"
  /\ StoreState(ready)
  /\ spc' = [spc EXCEPT ![t] = "pubStarted"]
  /\ UNCHANGED <<sret, dpc, dret, dcas, apc, aret, akind, aread, pmCalled,
                 starts, stops, cmFailed, published, handlerLog, received, overlap>>
  /\ UNCHANGED outsideClient

\* c.eventDispatcher.Publish(newLifecycleStateChanged(LifecycleStateStarted)); return nil
StartPublishStarted(t) ==
  /\ spc[t] = "pubStarted"
  /\ Publish(LifecycleStateStarted)
  /\ spc' = [spc EXCEPT ![t] = "done"]
  /\ sret' = [sret EXCEPT ![t] = "nil"]
  /\ UNCHANGED <<state, reached, dpc, dret, dcas, apc, aret, akind, aread,
                 pmCalled, starts, stops, cmFailed, overlap>>
  /\ UNCHANGED outsideClient

-----------------------------------------------------------------------------
(* Client.Shutdown *)

StartReturned == \E t \in DOMAIN spc : spc[t] = "done" /\ sret[t] # ErrClientCannotStart

\* mutant: the guard of the listener methods (state >= stopping fails) used for Shutdown
ShutdownMayProceed_BelowStopping(s) == s < stopping

\* mutant: Shutdown refuses only a client that is already stopped
ShutdownMayProceed_NotStopped(s) == s # stopped

\* the old value Shutdown's compare-and-swap expects: CompareAndSwapInt32(&c.state, ready, stopping)
ShutdownMayProceed(s) == s = ready

\* if !atomic.CompareAndSwapInt32(&c.state, ready, stopping) { return ErrClientNotReady }
ShutdownCAS(t) ==
  /\ dpc[t] = "call"
  /\ dcas' = [dcas EXCEPT ![t] = (state >= ready)]
  /\ IF ShutdownMayProceed(state)
       THEN /\ StoreState(stopping)
            /\ dpc' = [dpc EXCEPT ![t] = "pubShuttingDown"]
            /\ overlap' = (overlap \/ ~StartReturned)
            /\ UNCHANGED dret
       ELSE /\ dpc' = [dpc EXCEPT ![t] = "done"]
            /\ dret' = [dret EXCEPT ![t] = ErrClientNotReady]
            /\ UNCHANGED <<state, reached, overlap>>
  /\ UNCHANGED <<spc, sret, apc, aret, akind, aread, pmCalled, starts, stops,
                 cmFailed, published, handlerLog, received>>
  /\ UNCHANGED outsideClient

\* c.eventDispatcher.Publish(newLifecycleStateChanged(LifecycleStateShuttingDown))
ShutdownPublishShuttingDown(t) ==
  /\ dpc[t] = "pubShuttingDown"
  /\ Publish(LifecycleStateShuttingDown)
  /\ dpc' = [dpc EXCEPT ![t] = "isStop"]
  /\ UNCHANGED <<state, reached, spc, sret, dret, dcas, apc, aret, akind,
                 aread, pmCalled, starts, stops, cmFailed, overlap>>
  /\ UNCHANGED outsideClient

\* c.invocationService.Stop()
ShutdownStopInvocation(t) ==
  /\ dpc[t] = "isStop"
  /\ Stop("invocationService")
  /\ dpc' = [dpc EXCEPT ![t] = "csStop"]
  /\ UNCHANGED <<state, reached, spc, sret, dret, dcas, apc, aret, akind,
                 aread, pmCalled, starts, cmFailed, published, handlerLog, received,
                 overlap>>
  /\ UNCHANGED outsideClient

\* c.clusterService.Stop()
ShutdownStopCluster(t) ==
  /\ dpc[t] = "csStop"
  /\ Stop("clusterService")
  /\ dpc' = [dpc EXCEPT ![t] = "cmStop"]
  /\ UNCHANGED <<state, reached, spc, sret, dret, dcas, apc, aret, akind,
                 aread, pmCalled, starts, cmFailed, published, handlerLog, received,
                 overlap>>
  /\ UNCHANGED outsideClient

\* c.connectionManager.Stop()
ShutdownStopConnectionManager(t) ==
  /\ dpc[t] = "cmStop"
  /\ Stop("connectionManager")
  /\ dpc' = [dpc EXCEPT ![t] = "store"]
  /\ UNCHANGED <<state, reached, spc, sret, dret, dcas, apc, aret, akind,
                 aread, pmCalled, starts, cmFailed, published, handlerLog, received,
                 overlap>>
  /\ UNCHANGED outsideClient

\* atomic.StoreInt32(&c.state, stopped)
ShutdownStoreStopped(t) ==
  /\ dpc[t] = "store"
  /\ StoreState(stopped)
  /\ dpc' = [dpc EXCEPT ![t] = "pubShutDown"]
  /\ UNCHANGED <<spc, sret, dret, dcas, apc, aret, akind, aread, pmCalled,
                 starts, stops, cmFailed, published, handlerLog, received, overlap>>
  /\ UNCHANGED outsideClient

\* mutant: the shut-down event is not published
ShutdownPublishShutDown_Skipped(t) ==
  /\ dpc[t] = "pubShutDown"
  /\ dpc' = [dpc EXCEPT ![t] = "edStop"]
  /\ UNCHANGED <<state, reached, spc, sret, dret, dcas, apc, aret, akind,
                 aread, pmCalled, starts, stops, cmFailed, overlap, published,
                 handlerLog, received>>
  /\ UNCHANGED outsideClient

\* c.eventDispatcher.Publish(newLifecycleStateChanged(LifecycleStateShutDown))
\* followed by time.Sleep(1 * time.Millisecond)
ShutdownPublishShutDown(t) ==
  /\ dpc[t] = "pubShutDown"
  /\ Publish(LifecycleStateShutDown)
  /\ dpc' = [dpc EXCEPT ![t] = "edStop"]
  /\ UNCHANGED <<state, reached, spc, sret, dret, dcas, apc, aret, akind,
                 aread, pmCalled, starts, stops, cmFailed, overlap>>
  /\ UNCHANGED outsideClient

\* c.eventDispatcher.Stop()
ShutdownStopDispatcher(t) ==
  /\ dpc[t] = "edStop"
  /\ Stop("eventDispatcher")
  /\ dpc' = [dpc EXCEPT ![t] = "uedStop"]
  /\ UNCHANGED <<state, reached, spc, sret, dret, dcas, apc, aret, akind,
                 aread, pmCalled, starts, cmFailed, published, handlerLog, received,
                 overlap>>
  /\ UNCHANGED outsideClient

\* c.userEventDispatcher.Stop(); return nil
ShutdownStopUserDispatcher(t) ==
  /\ dpc[t] = "uedStop"
  /\ Stop("userEventDispatcher")
  /\ dpc' = [dpc EXCEPT ![t] = "done"]
  /\ dret' = [dret EXCEPT ![t] = "nil"]
  /\ UNCHANGED <<state, reached, spc, sret, dcas, apc, aret, akind, aread,
                 pmCalled, starts, cmFailed, published, handlerLog, received, overlap>>
  /\ UNCHANGED outsideClient

-----------------------------------------------------------------------------
(* GetMap / GetReplicatedMap / GetQueue / GetTopic / GetList *)

\* mutant: the guard of the listener methods (only state >= stopping fails)
AccessorMayProceed_BelowStopping(s) == s < stopping

\* the test each accessor makes on the state it loaded:
\* if atomic.LoadInt32(&c.state) != ready { return nil, ErrClientNotReady }
AccessorMayProceed(s) == s = ready

\* atomic.LoadInt32(&c.state)
AccessorLoad(a) ==
  /\ apc[a] = "call"
  /\ \E k \in Accessors : akind' = [akind EXCEPT ![a] = k]
  /\ aread' = [aread EXCEPT ![a] = state]
  /\ apc' = [apc EXCEPT ![a] = "loaded"]
  /\ UNCHANGED <<state, reached, spc, sret, dpc, dret, dcas, aret, pmCalled,
                 starts, stops, cmFailed, published, handlerLog, received, overlap>>
  /\ UNCHANGED outsideClient

\* return nil, ErrClientNotReady   or   return c.proxyManager.getXxx(name)
AccessorReturn(a) ==
  /\ apc[a] = "loaded"
  /\ IF AccessorMayProceed(aread[a])
       THEN /\ pmCalled' = [pmCalled EXCEPT ![a] = ProxyManagerMethod(akind[a])]
            /\ aret' = [aret EXCEPT ![a] = "proxy"]
       ELSE /\ aret' = [aret EXCEPT ![a] = ErrClientNotReady]
            /\ UNCHANGED pmCalled
  /\ apc' = [apc EXCEPT ![a] = "done"]
  /\ UNCHANGED <<state, reached, spc, sret, dpc, dret, dcas, akind, aread,
                 starts, stops, cmFailed, published, handlerLog, received, overlap>>
  /\ UNCHANGED outsideClient

-----------------------------------------------------------------------------
(* Connection: bounds and inputs *)
NumSender == 2
NumCloser == 1
FrameLen == 2
MaxFrames == 2
MaxFrameLen == 5

\* const BufferSize = 8192 * 2
BufferSize == 16384
\* common.Int32SizeInBytes
Int32SizeInBytes == 4
\* pending: make(chan *protocol.ClientMessage, 1)
PendingCap == 1
\* the capacity of the sendingError channel the connection manager passes in
SendingErrorCap == 1

Senders == 1..NumSender
\* close() callers: 0 is the read worker, the others are external callers
\* (the connection manager's heartbeat and shutdown)
Closers == 0..NumCloser
PayloadBytes == {0, 5}

Min(a, b) == IF a < b THEN a ELSE b

RECURSIVE Flatten(_)
Flatten(ss) == IF ss = <<>> THEN <<>> ELSE Head(ss) \o Flatten(Tail(ss))

IsPrefix(p, q) == Len(p) <= Len(q) /\ SubSeq(q, 1, Len(p)) = p

\* socket.Write([]byte("CB2")) in newConnection
Preamble == <<67, 66, 50>>

\* clientMessage.Buffer of the frame sender m submits; clientMessage.CorrelationId() is m
Buffer(m) == [k \in 1..FrameLen |-> 16 * m + k]

\* the peer's encoding of a frame length: 4 bytes, little-endian
PutUint32(n) == <<n % 256, (n \div 256) % 256, (n \div 65536) % 256,
                  (n \div 16777216) % 256>>

\* binary.LittleEndian.Uint32(b[0:4])
Uint32(b) == b[1] + 256 * b[2] + 65536 * b[3] + 16777216 * b[4]

\* the frames a peer may send: a length prefix that counts itself, then a payload
PeerFrames ==
  UNION {{PutUint32(n) \o p : p \in [1..(n - Int32SizeInBytes) -> PayloadBytes]} :
          n \in Int32SizeInBytes..MaxFrameLen}

RECURSIVE FrameSeqs(_)
FrameSeqs(k) ==
  IF k = 0 THEN {<<>>}
  ELSE {<<>>} \cup {<<f>> \o fs : f \in PeerFrames, fs \in FrameSeqs(k - 1)}

PeerStreams == {Flatten(fs) : fs \in FrameSeqs(MaxFrames)}

-----------------------------------------------------------------------------
(* Connection.close *)

\* mutant: close stores the status without testing it
CloseCAS_Unconditional(t) ==
  /\ t = 0 \/ npc = "returned"
  /\ cpc[t] = "call"
  /\ status' = 1
  /\ cwon' = [cwon EXCEPT ![t] = TRUE]
  /\ cpc' = [cpc EXCEPT ![t] = "closeChan"]
  /\ UNCHANGED <<closedCh, closedTime, notified, pending, mpc, mret, accepted,
                 wpc, request, writeIndex, remainingLen, socketOut,
                 socketBroken, sendingError, lastWrite, stream, nread,
                 readBuffer, rpc, delivered>>
  /\ UNCHANGED <<npc, outsideConnection>>

\* if !atomic.CompareAndSwapInt32(&connection.status, 0, 1) { return }
CloseCAS(t) ==
  /\ t = 0 \/ npc = "returned"
  /\ cpc[t] = "call"
  /\ IF status = 0
       THEN /\ status' = 1
            /\ cwon' = [cwon EXCEPT ![t] = TRUE]
            /\ cpc' = [cpc EXCEPT ![t] = "closeChan"]
       ELSE /\ cpc' = [cpc EXCEPT ![t] = "done"]
            /\ UNCHANGED <<status, cwon>>
  /\ UNCHANGED <<closedCh, closedTime, notified, pending, mpc, mret, accepted,
                 wpc, request, writeIndex, remainingLen, socketOut,
                 socketBroken, sendingError, lastWrite, stream, nread,
                 readBuffer, rpc, delivered>>
  /\ UNCHANGED <<npc, outsideConnection>>

\* close(connection.closed): closing a closed channel panics
CloseChannel(t) ==
  /\ cpc[t] = "closeChan"
  /\ closedCh' = closedCh + 1
  /\ cpc' = [cpc EXCEPT ![t] = IF closedCh = 0 THEN "storeTime" ELSE "panic"]
  /\ UNCHANGED <<status, closedTime, notified, cwon, pending, mpc, mret,
                 accepted, wpc, request, writeIndex, remainingLen, socketOut,
                 socketBroken, sendingError, lastWrite, stream, nread,
                 readBuffer, rpc, delivered>>
  /\ UNCHANGED <<npc, outsideConnection>>

\* connection.closedTime.Store(time.Now())
CloseStoreTime(t) ==
  /\ cpc[t] = "storeTime"
  /\ closedTime' = TRUE
  /\ cpc' = [cpc EXCEPT ![t] = "notify"]
  /\ UNCHANGED <<status, closedCh, notified, cwon, pending, mpc, mret,
                 accepted, wpc, request, writeIndex, remainingLen, socketOut,
                 socketBroken, sendingError, lastWrite, stream, nread,
                 readBuffer, rpc, delivered>>
  /\ UNCHANGED <<npc, outsideConnection>>

\* connection.connectionManager.connectionClosed(connection, err)
CloseNotify(t) ==
  /\ cpc[t] = "notify"
  /\ notified' = notified + 1
  /\ cpc' = [cpc EXCEPT ![t] = "done"]
  /\ UNCHANGED <<status, closedCh, closedTime, cwon, pending, mpc, mret,
                 accepted, wpc, request, writeIndex, remainingLen, socketOut,
                 socketBroken, sendingError, lastWrite, stream, nread,
                 readBuffer, rpc, delivered>>
  /\ UNCHANGED <<npc, outsideConnection>>

-----------------------------------------------------------------------------
(* Connection.isAlive / Connection.send *)

\* atomic.LoadInt32(&connection.status) == 0
isAlive == status = 0

\* mutant: send goes to its select without testing isAlive
SendCheckAlive_NoCheck(m) ==
  /\ npc = "returned"
  /\ mpc[m] = "call"
  /\ mpc' = [mpc EXCEPT ![m] = "select"]
  /\ UNCHANGED mret
  /\ UNCHANGED <<status, closedCh, closedTime, notified, cpc, cwon, pending,
                 accepted, wpc, request, writeIndex, remainingLen, socketOut,
                 socketBroken, sendingError, lastWrite, stream, nread,
                 readBuffer, rpc, delivered>>
  /\ UNCHANGED <<npc, outsideConnection>>

\* if !connection.isAlive() { return false }
SendCheckAlive(m) ==
  /\ npc = "returned"
  /\ mpc[m] = "call"
  /\ IF isAlive
       THEN /\ mpc' = [mpc EXCEPT ![m] = "select"]
            /\ UNCHANGED mret
       ELSE /\ mpc' = [mpc EXCEPT ![m] = "done"]
            /\ mret' = [mret EXCEPT ![m] = FALSE]
  /\ UNCHANGED <<status, closedCh, closedTime, notified, cpc, cwon, pending,
                 accepted, wpc, request, writeIndex, remainingLen, socketOut,
                 socketBroken, sendingError, lastWrite, stream, nread,
                 readBuffer, rpc, delivered>>
  /\ UNCHANGED <<npc, outsideConnection>>

\* select { case <-connection.closed: return false }
SendSelectClosed(m) ==
  /\ mpc[m] = "select"
  /\ closedCh > 0
  /\ mpc' = [mpc EXCEPT ![m] = "done"]
  /\ mret' = [mret EXCEPT ![m] = FALSE]
  /\ UNCHANGED <<status, closedCh, closedTime, notified, cpc, cwon, pending,
                 accepted, wpc, request, writeIndex, remainingLen, socketOut,
                 socketBroken, sendingError, lastWrite, stream, nread,
                 readBuffer, rpc, delivered>>
  /\ UNCHANGED <<npc, outsideConnection>>

\* select { case connection.pending <- clientMessage: return true }
SendSelectPending(m) ==
  /\ mpc[m] = "select"
  /\ Len(pending) < PendingCap
  /\ pending' = Append(pending, m)
  /\ accepted' = Append(accepted, m)
  /\ mpc' = [mpc EXCEPT ![m] = "done"]
  /\ mret' = [mret EXCEPT ![m] = TRUE]
  /\ UNCHANGED <<status, closedCh, closedTime, notified, cpc, cwon, wpc,
                 request, writeIndex, remainingLen, socketOut, socketBroken,
                 sendingError, lastWrite, stream, nread, readBuffer, rpc,
                 delivered>>
  /\ UNCHANGED <<npc, outsideConnection>>

-----------------------------------------------------------------------------
(* Connection.writePool / Connection.write *)

\* case request := <-connection.pending, then the first two lines of write:
\* remainingLen := len(clientMessage.Buffer); writeIndex := 0
WriterTakePending ==
  /\ wpc = "select"
  /\ pending # <<>>
  /\ request' = Head(pending)
  /\ pending' = Tail(pending)
  /\ remainingLen' = Len(Buffer(Head(pending)))
  /\ writeIndex' = 0
  /\ wpc' = "write"
  /\ UNCHANGED <<status, closedCh, closedTime, notified, cpc, cwon, mpc, mret,
                 accepted, socketOut, socketBroken, sendingError, lastWrite,
                 stream, nread, readBuffer, rpc, delivered>>
  /\ UNCHANGED <<npc, outsideConnection>>

\* case <-connection.closed: return
WriterSeeClosed ==
  /\ wpc = "select"
  /\ closedCh > 0
  /\ wpc' = "exit"
  /\ UNCHANGED <<status, closedCh, closedTime, notified, cpc, cwon, pending,
                 mpc, mret, accepted, request, writeIndex, remainingLen,
                 socketOut, socketBroken, sendingError, lastWrite, stream,
                 nread, readBuffer, rpc, delivered>>
  /\ UNCHANGED <<npc, outsideConnection>>

\* the bytes one socket.Write call is given: clientMessage.Buffer[writeIndex:]
WriteSlice == SubSeq(Buffer(request), writeIndex + 1, Len(Buffer(request)))

\* mutant: a partial write does not advance writeIndex
WriterSocketWrite_NoAdvance ==
  /\ wpc = "write"
  /\ remainingLen > 0
  /\ ~socketBroken
  /\ \E writtenLen \in 1..Len(WriteSlice) :
       /\ socketOut' = socketOut \o SubSeq(WriteSlice, 1, writtenLen)
       /\ remainingLen' = remainingLen - writtenLen
       /\ IF remainingLen - writtenLen > 0
            THEN UNCHANGED <<wpc, lastWrite>>
            ELSE wpc' = "select" /\ lastWrite' = TRUE
  /\ UNCHANGED <<status, closedCh, closedTime, notified, cpc, cwon, pending,
                 mpc, mret, accepted, request, socketBroken, sendingError,
                 stream, nread, readBuffer, rpc, delivered, writeIndex>>
  /\ UNCHANGED <<npc, outsideConnection>>

\* writtenLen, err := connection.socket.Write(clientMessage.Buffer[writeIndex:])
\* with err == nil: remainingLen -= writtenLen; writeIndex += writtenLen, and
\* when the loop ends write returns nil and writePool stores lastWrite.
\* A TCP socket takes a part of the slice or fails; once it has failed it
\* fails every later write.
WriterSocketWrite ==
  /\ wpc = "write"
  /\ remainingLen > 0
  /\ ~socketBroken
  /\ \E writtenLen \in 1..Len(WriteSlice) :
       /\ socketOut' = socketOut \o SubSeq(WriteSlice, 1, writtenLen)
       /\ remainingLen' = remainingLen - writtenLen
       /\ writeIndex' = writeIndex + writtenLen
       /\ IF remainingLen - writtenLen > 0
            THEN UNCHANGED <<wpc, lastWrite>>
            ELSE wpc' = "select" /\ lastWrite' = TRUE
  /\ UNCHANGED <<status, closedCh, closedTime, notified, cpc, cwon, pending,
                 mpc, mret, accepted, request, socketBroken, sendingError,
                 stream, nread, readBuffer, rpc, delivered>>
  /\ UNCHANGED <<npc, outsideConnection>>

\* socket.Write returns an error (after taking writtenLen bytes): return err
WriterSocketWriteError ==
  /\ wpc = "write"
  /\ remainingLen > 0
  /\ \E writtenLen \in 0..(IF socketBroken THEN 0 ELSE Len(WriteSlice) - 1) :
       socketOut' = socketOut \o SubSeq(WriteSlice, 1, writtenLen)
  /\ socketBroken' = TRUE
  /\ wpc' = "report"
  /\ UNCHANGED <<status, closedCh, closedTime, notified, cpc, cwon, pending,
                 mpc, mret, accepted, request, writeIndex, remainingLen,
                 sendingError, lastWrite, stream, nread, readBuffer, rpc,
                 delivered>>
  /\ UNCHANGED <<npc, outsideConnection>>

\* connection.sendingError <- request.CorrelationId(); connection.lastWrite.Store(time.Now())
WriterReportError ==
  /\ wpc = "report"
  /\ Len(sendingError) < SendingErrorCap
  /\ sendingError' = Append(sendingError, request)
  /\ lastWrite' = TRUE
  /\ wpc' = "select"
  /\ UNCHANGED <<status, closedCh, closedTime, notified, cpc, cwon, pending,
                 mpc, mret, accepted, request, writeIndex, remainingLen,
                 socketOut, socketBroken, stream, nread, readBuffer, rpc,
                 delivered>>
  /\ UNCHANGED <<npc, outsideConnection>>

\* the invocation service receives from the sendingError channel
ReceiveSendingError ==
  /\ sendingError # <<>>
  /\ sendingError' = Tail(sendingError)
  /\ UNCHANGED <<status, closedCh, closedTime, notified, cpc, cwon, pending,
                 mpc, mret, accepted, wpc, request, writeIndex, remainingLen,
                 socketOut, socketBroken, lastWrite, stream, nread,
                 readBuffer, rpc, delivered>>
  /\ UNCHANGED <<npc, outsideConnection>>

-----------------------------------------------------------------------------
(* Connection.read / Connection.receiveMessage *)

\* n, err := connection.socket.Read(buf) with err == nil and n > 0;
\* connection.readBuffer = append(connection.readBuffer, buf[:n]...)
ReaderRead ==
  /\ rpc = "read"
  /\ \E n \in 1..Min(Len(stream) - nread, BufferSize) :
       /\ readBuffer' = readBuffer \o SubSeq(stream, nread + 1, nread + n)
       /\ nread' = nread + n
  /\ rpc' = "receive"
  /\ UNCHANGED <<status, closedCh, closedTime, notified, cpc, cwon, pending,
                 mpc, mret, accepted, wpc, request, writeIndex, remainingLen,
                 socketOut, socketBroken, sendingError, lastWrite, stream,
                 delivered>>
  /\ UNCHANGED <<npc, outsideConnection>>

\* socket.Read fails (n = 0): connection.close(err); return
ReaderReadError ==
  /\ rpc = "read"
  /\ rpc' = "exit"
  /\ cpc' = [cpc EXCEPT ![0] = "call"]
  /\ UNCHANGED <<status, closedCh, closedTime, notified, cwon, pending, mpc,
                 mret, accepted, wpc, request, writeIndex, remainingLen,
                 socketOut, socketBroken, sendingError, lastWrite, stream,
                 nread, readBuffer, delivered>>
  /\ UNCHANGED <<npc, outsideConnection>>

\* the loop test of receiveMessage: len(connection.readBuffer) > common.Int32SizeInBytes
HasFrameLength(buf) == Len(buf) > Int32SizeInBytes

\* the frames handed to onMessage are followed up to this number
MaxDelivered == MaxFrames + 2

\* one iteration of the loop of receiveMessage
ReaderReceive ==
  /\ rpc = "receive"
  /\ IF HasFrameLength(readBuffer)
       THEN LET frameLength == Uint32(SubSeq(readBuffer, 1, 4)) IN
            IF frameLength > Len(readBuffer)
              THEN /\ rpc' = "read"
                   /\ UNCHANGED <<readBuffer, delivered>>
              ELSE /\ Len(delivered) < MaxDelivered
                   /\ delivered' = Append(delivered, SubSeq(readBuffer, 1, frameLength))
                   /\ readBuffer' = SubSeq(readBuffer, frameLength + 1, Len(readBuffer))
                   /\ UNCHANGED rpc
       ELSE /\ rpc' = "read"
            /\ UNCHANGED <<readBuffer, delivered>>
  /\ UNCHANGED <<status, closedCh, closedTime, notified, cpc, cwon, pending,
                 mpc, mret, accepted, wpc, request, writeIndex, remainingLen,
                 socketOut, socketBroken, sendingError, lastWrite, stream,
                 nread>>
  /\ UNCHANGED <<npc, outsideConnection>>

-----------------------------------------------------------------------------
(* newConnection *)

\* the attributes the struct literal of newConnection sets (status is the
\* zero value of an int32) and connection.endpoint.Store(&protocol.Address{})
ConstructedAttributes == {"status", "connectionId", "endpoint"}

\* the Store calls of newConnection after a successful Dial:
\* lastRead, lastWrite, lastHeartbeatReceived (twice) and closedTime
StoredAfterDial == {"lastRead", "lastWrite", "lastHeartbeatReceived", "closedTime"}

\* socket, err := net.Dial("tcp", ...); if err != nil { return nil }
\* and, when the dial succeeded, the Store calls that follow it
NewConnectionDial ==
  /\ npc = "dial"
  /\ \E ok \in BOOLEAN :
       /\ npc' = IF ok THEN "preamble" ELSE "nil"
       /\ assigned' = IF ok THEN assigned \cup StoredAfterDial ELSE assigned
  /\ UNCHANGED <<connVars, outsideNewConnection>>

\* mutant: the constructor starts the workers without writing the preamble
NewConnectionWritePreamble_Skipped ==
  /\ npc = "preamble"
  /\ npc' = "startWriter"
  /\ UNCHANGED <<connVars, outsideConnection>>

\* socket.Write([]byte("CB2")): the result is discarded. A Write that takes
\* fewer bytes than it was given returns an error (io.Writer), and the
\* socket fails every later write.
NewConnectionWritePreamble ==
  /\ npc = "preamble"
  /\ \/ socketOut' = socketOut \o Preamble /\ UNCHANGED socketBroken
     \/ \E writtenLen \in 0..(Len(Preamble) - 1) :
          /\ socketOut' = socketOut \o SubSeq(Preamble, 1, writtenLen)
          /\ socketBroken' = TRUE
  /\ npc' = "startWriter"
  /\ UNCHANGED <<status, closedCh, closedTime, notified, cpc, cwon, pending,
                 mpc, mret, accepted, wpc, request, writeIndex, remainingLen,
                 sendingError, lastWrite, stream, nread, readBuffer, rpc,
                 delivered>>
  /\ UNCHANGED outsideConnection

\* go connection.writePool()
NewConnectionStartWriter ==
  /\ npc = "startWriter"
  /\ wpc' = "select"
  /\ npc' = "startReader"
  /\ UNCHANGED <<status, closedCh, closedTime, notified, cpc, cwon, pending,
                 mpc, mret, accepted, request, writeIndex, remainingLen,
                 socketOut, socketBroken, sendingError, lastWrite, stream,
                 nread, readBuffer, rpc, delivered>>
  /\ UNCHANGED outsideConnection

\* go connection.read(); return &connection
NewConnectionStartReader ==
  /\ npc = "startReader"
  /\ rpc' = "read"
  /\ npc' = "returned"
  /\ UNCHANGED <<status, closedCh, closedTime, notified, cpc, cwon, pending,
                 mpc, mret, accepted, wpc, request, writeIndex, remainingLen,
                 socketOut, socketBroken, sendingError, lastWrite, stream,
                 nread, readBuffer, delivered>>
  /\ UNCHANGED outsideConnection

-----------------------------------------------------------------------------
(* Near-cached map: bounds and inputs *)
NumGet == 2
NumWriter == 1
NumValues == 2
MaxEvents == 2

GetCallers == 1..NumGet
WriteCallers == 1..NumWriter
\* a Go nil value: no entry for the key
Nil == 0
Values == 1..NumValues

\* the mutating operations of nearCacheMap
StoreOps == {"Put", "PutWithMaxIdle", "Set", "SetWithTTLAndMaxIdle"}
RemoveOps == {"Remove", "Delete"}
WriteOps == StoreOps \cup RemoveOps \cup {"RemoveIfSame", "TryRemove", "TryPut"}

\* serialization.Service: ToData gives the binary form of an object, ToObject
\* gives the object back; value.(serialization.Data) tests for the binary form
ToData(v) == v + 100
ToObject(data) == data - 100
IsData(value) == value > 100

-----------------------------------------------------------------------------
(* inearcache.NearCache: one record per cache key. A record is absent,     *)
(* reserved (a reservation id, no value yet) or present (a value).         *)

\* the key the callers of the map operations pass
UserKey == 1

\* the keys the near cache can be asked about: the raw key and its data form
CacheKeys == {UserKey, ToData(UserKey)}

\* ncm.toNearCacheKey as newNearCacheMap sets it: ss.ToData(key) when
\* SerializeKeys is true, the raw key otherwise
toNearCacheKey(key) == IF ncm.serializeKeys THEN ToData(key) ELSE key

\* the cache key of the callers' key, and its record
NearCacheKey == toNearCacheKey(UserKey)
slot == records[NearCacheKey]

\* inearcache.RecordNotReserved
RecordNotReserved == -1

AbsentRecord == [st |-> "absent", rid |-> RecordNotReserved, val |-> Nil]

\* NearCache.Get: (value, found)
NearCacheGet(rec) ==
  IF rec.st = "present" THEN <<rec.val, TRUE>> ELSE <<Nil, FALSE>>

\* the form a value is kept in: binary data or the object itself
StoredForm(v) == IF format = "binary" /\ v # Nil THEN ToData(v) ELSE v

\* NearCache.TryReserveForUpdate: a fresh reservation id is drawn; a present
\* record is left alone and the caller is told RecordNotReserved; an absent
\* slot is reserved; a slot another caller reserved is either taken over or
\* left to that caller. ok = FALSE: the call returns an error.
TryReserveForUpdate(key, ok, takeOver) ==
  /\ nextRid' = nextRid + 1
  /\ IF ok /\ (records[key].st = "absent" \/ (records[key].st = "reserved" /\ takeOver))
       THEN records' = [records EXCEPT
              ![key] = [st |-> "reserved", rid |-> nextRid, val |-> Nil]]
       ELSE records' = records
  /\ UNCHANGED <<staleRecord, gapRecord>>

\* the reservation id TryReserveForUpdate returns
ReservedId(key, ok, takeOver) ==
  IF ok /\ (records[key].st = "absent" \/ (records[key].st = "reserved" /\ takeOver))
    THEN nextRid ELSE RecordNotReserved

\* the record of the key holds the reservation rid
HoldsReservation(key, rid) == records[key].st = "reserved" /\ records[key].rid = rid

\* NearCache.TryPublishReserved: a compare-and-swap on the record's
\* reservation id; a publish under any other id is dropped
TryPublishReserved(key, value, rid) ==
  IF HoldsReservation(key, rid)
    THEN /\ records' = [records EXCEPT
              ![key] = [st |-> "present", rid |-> rid, val |-> StoredForm(value)]]
         /\ staleRecord' = FALSE
         /\ gapRecord' = FALSE
         /\ UNCHANGED nextRid
    ELSE UNCHANGED <<records, nextRid, staleRecord, gapRecord>>

\* NearCache.Invalidate: the record of the key is removed
Invalidate(key) ==
  /\ records' = [records EXCEPT ![key] = AbsentRecord]
  /\ staleRecord' = FALSE
  /\ gapRecord' = FALSE
  /\ UNCHANGED nextRid

storeVars == <<records, nextRid, staleRecord, gapRecord>>
serverVars == <<serverSeq, inbox, lastSeen>>

-----------------------------------------------------------------------------
(* nearCacheMap.Get *)

AllWritesReturned == \A w \in DOMAIN writes : writes[w].pc = "done"

\* key, err := ncm.toNearCacheKey(key); if err != nil { return nil, err }
GetToNearCacheKey(g) ==
  /\ ncm.pc = "constructed"
  /\ gets[g].pc = "call"
  /\ \E ok \in BOOLEAN :
       /\ ~ok => ncm.serializeKeys
       /\ gets' = [gets EXCEPT ![g].pc = IF ok THEN "lookup" ELSE "done",
                               ![g].key = IF ok THEN toNearCacheKey(@) ELSE @,
                               ![g].err = IF ok THEN "none" ELSE "key",
                               ![g].afterWrites = AllWritesReturned]
  /\ UNCHANGED <<remote, format, ncm, contains, storeVars, writes, serverVars>>
  /\ UNCHANGED outsideCache

\* mutant: the cached value is returned in the form it is stored in
GetCachedValue_Raw(g) ==
  /\ gets[g].pc = "lookup"
  /\ LET value == NearCacheGet(records[gets[g].key])[1]
         found == NearCacheGet(records[gets[g].key])[2] IN
       IF ~found
         THEN gets' = [gets EXCEPT ![g].pc = "serialize"]
         ELSE gets' = [gets EXCEPT ![g].pc = "done", ![g].hit = TRUE,
                                   ![g].seen = value, ![g].stale = staleRecord,
                                   ![g].ret = value]
  /\ UNCHANGED <<remote, format, ncm, contains, storeVars, writes, serverVars>>
  /\ UNCHANGED outsideCache

\* cached, found, err := ncm.getCachedValue(key, true), and the two returns
\* of Get that follow it: the error of ToObject, or the cached value
GetCachedValue(g) ==
  /\ gets[g].pc = "lookup"
  /\ LET value == NearCacheGet(records[gets[g].key])[1]
         found == NearCacheGet(records[gets[g].key])[2] IN
       IF ~found
         THEN gets' = [gets EXCEPT ![g].pc = "serialize"]
         ELSE \E ok \in BOOLEAN :
                /\ ~ok => value # Nil /\ IsData(value)
                /\ gets' = [gets EXCEPT
                     ![g].pc = "done", ![g].hit = TRUE, ![g].seen = value,
                     ![g].stale = staleRecord,
                     ![g].err = IF ok THEN "none" ELSE "deserialize",
                     ![g].ret = IF ~ok \/ value = Nil THEN Nil
                                ELSE IF IsData(value) THEN ToObject(value)
                                ELSE value]
  /\ UNCHANGED <<remote, format, ncm, contains, storeVars, writes, serverVars>>
  /\ UNCHANGED outsideCache

\* keyData, err := m.validateAndSerialize(key)
GetValidateAndSerialize(g) ==
  /\ gets[g].pc = "serialize"
  /\ \E ok \in BOOLEAN :
       gets' = [gets EXCEPT ![g].pc = IF ok THEN "reserve" ELSE "invalidate",
                            ![g].err = IF ok THEN "none" ELSE "miss"]
  /\ UNCHANGED <<remote, format, ncm, contains, storeVars, writes, serverVars>>
  /\ UNCHANGED outsideCache

\* rid, err := ncm.nc.TryReserveForUpdate(key, keyData, UpdateSemanticReadUpdate)
GetReserve(g) ==
  /\ gets[g].pc = "reserve"
  /\ \E ok \in BOOLEAN, takeOver \in BOOLEAN :
       /\ TryReserveForUpdate(gets[g].key, ok, takeOver)
       /\ gets' = [gets EXCEPT ![g].pc = IF ok THEN "fetch" ELSE "invalidate",
                               ![g].err = IF ok THEN "none" ELSE "miss",
                               ![g].rid = ReservedId(gets[g].key, ok, takeOver)]
  /\ UNCHANGED <<remote, format, ncm, contains, writes, serverVars>>
  /\ UNCHANGED outsideCache

\* mutant: a caller that holds no reservation returns nil, not the fetched value
GetFromRemote_DropsUnreserved(g) ==
  /\ gets[g].pc = "fetch"
  /\ \E ok \in BOOLEAN :
       gets' = [gets EXCEPT
         ![g].fetches = @ + 1,
         ![g].fetched = IF ok THEN remote ELSE Nil,
         ![g].err = IF ok THEN "none" ELSE "miss",
         ![g].pc = IF ~ok THEN "invalidate"
                   ELSE IF gets[g].rid # RecordNotReserved THEN "publish"
                   ELSE "done"]
  /\ UNCHANGED <<remote, format, ncm, contains, storeVars, writes, serverVars>>
  /\ UNCHANGED outsideCache

\* value, err := m.getFromRemote(ctx, keyData); with rid == RecordNotReserved
\* getFromRemote returns the value at once
GetFromRemote(g) ==
  /\ gets[g].pc = "fetch"
  /\ \E ok \in BOOLEAN :
       gets' = [gets EXCEPT
         ![g].fetches = @ + 1,
         ![g].fetched = IF ok THEN remote ELSE Nil,
         ![g].err = IF ok THEN "none" ELSE "miss",
         ![g].ret = IF ok /\ gets[g].rid = RecordNotReserved THEN remote ELSE @,
         ![g].pc = IF ~ok THEN "invalidate"
                   ELSE IF gets[g].rid # RecordNotReserved THEN "publish"
                   ELSE "done"]
  /\ UNCHANGED <<remote, format, ncm, contains, storeVars, writes, serverVars>>
  /\ UNCHANGED outsideCache

\* what TryPublishReserved returns: the value handed to it
TryPublishReservedResult(value, rid) == value

\* value, err = ncm.nc.TryPublishReserved(key, value, rid); return value, nil
GetPublish(g) ==
  /\ gets[g].pc = "publish"
  /\ \E ok \in BOOLEAN :
       IF ok
         THEN /\ TryPublishReserved(gets[g].key, gets[g].fetched, gets[g].rid)
              /\ gets' = [gets EXCEPT
                   ![g].pc = "done", ![g].rid = RecordNotReserved,
                   ![g].installed = HoldsReservation(gets[g].key, gets[g].rid),
                   ![g].ret = TryPublishReservedResult(gets[g].fetched, gets[g].rid)]
         ELSE /\ gets' = [gets EXCEPT ![g].pc = "invalidate", ![g].err = "miss",
                                      ![g].fetched = Nil]
              /\ UNCHANGED storeVars
  /\ UNCHANGED <<remote, format, ncm, contains, writes, serverVars>>
  /\ UNCHANGED outsideCache

\* mutant: Get returns the error of getFromRemote without invalidating
GetInvalidate_Skipped(g) ==
  /\ gets[g].pc = "invalidate"
  /\ gets' = [gets EXCEPT ![g].pc = "done", ![g].rid = RecordNotReserved,
                          ![g].leftReserved = HoldsReservation(gets[g].key, gets[g].rid)]
  /\ UNCHANGED <<remote, format, ncm, contains, storeVars, writes, serverVars>>
  /\ UNCHANGED outsideCache

\* if err != nil { ncm.nc.Invalidate(key); return nil, err }
GetInvalidate(g) ==
  /\ gets[g].pc = "invalidate"
  /\ Invalidate(gets[g].key)
  /\ gets' = [gets EXCEPT ![g].pc = "done", ![g].inv = @ + 1,
                          ![g].rid = RecordNotReserved,
                          ![g].leftReserved = records'[gets[g].key].st = "reserved"
                                             /\ records'[gets[g].key].rid = gets[g].rid]
  /\ UNCHANGED <<remote, format, ncm, contains, writes, serverVars>>
  /\ UNCHANGED outsideCache

-----------------------------------------------------------------------------
(* nearCacheMap.Put, PutWithMaxIdle, Set, SetWithTTLAndMaxIdle, Remove,    *)
(* RemoveIfSame, TryRemove, TryPut, Delete: the same three steps           *)

\* the mutating operations keep the raw key
WriteToNearCacheKey_Raw(w) ==
  /\ ncm.pc = "constructed"
  /\ writes[w].pc = "call"
  /\ \E ok \in BOOLEAN :
       /\ ~ok => ncm.serializeKeys
       /\ writes' = [writes EXCEPT ![w].pc = IF ok THEN "remote" ELSE "done",
                                   ![w].err = IF ok THEN "none" ELSE "key"]
  /\ UNCHANGED <<remote, format, ncm, contains, storeVars, gets, serverVars>>
  /\ UNCHANGED outsideCache

\* key, err := ncm.toNearCacheKey(key); if err != nil { return ..., err };
\* defer ncm.nc.Invalidate(key)
WriteToNearCacheKey(w) ==
  /\ ncm.pc = "constructed"
  /\ writes[w].pc = "call"
  /\ \E ok \in BOOLEAN :
       /\ ~ok => ncm.serializeKeys
       /\ writes' = [writes EXCEPT ![w].pc = IF ok THEN "remote" ELSE "done",
                                   ![w].key = IF ok THEN toNearCacheKey(@) ELSE @,
                                   ![w].err = IF ok THEN "none" ELSE "key"]
  /\ UNCHANGED <<remote, format, ncm, contains, storeVars, gets, serverVars>>
  /\ UNCHANGED outsideCache

\* the entry of the key at the cluster once the operation has been applied
RemoteEffect(kind, value, old) ==
  IF kind \in StoreOps \cup {"TryPut"} THEN value
  ELSE IF kind = "RemoveIfSame" THEN (IF old = value THEN Nil ELSE old)
  ELSE Nil

\* mutant: the key is invalidated only when the remote call succeeds
WriteRemote_InvalidateOnSuccess(w) ==
  /\ writes[w].pc = "remote"
  /\ \E ok \in BOOLEAN, applied \in BOOLEAN :
       /\ (ok /\ ~applied) => writes[w].kind \in {"TryPut", "TryRemove"}
       /\ remote' = IF applied
                      THEN RemoteEffect(writes[w].kind, writes[w].val, remote)
                      ELSE remote
       /\ writes' = [writes EXCEPT ![w].pc = IF ok THEN "invalidate" ELSE "done",
                                   ![w].err = IF ok THEN "none" ELSE "remote",
                                   ![w].called = TRUE,
                                   ![w].applied = applied]
  /\ UNCHANGED <<format, ncm, contains, storeVars, gets, serverVars>>
  /\ UNCHANGED outsideCache

\* return m.putWithTTLFromRemote(ctx, key, value, ttl) and its eight
\* siblings: the call returns a result or an error; a call that returns an
\* error may have been applied at the cluster; TryPut and TryRemove may
\* time out, returning false with nothing applied
WriteRemote(w) ==
  /\ writes[w].pc = "remote"
  /\ \E ok \in BOOLEAN, applied \in BOOLEAN :
       /\ (ok /\ ~applied) => writes[w].kind \in {"TryPut", "TryRemove"}
       /\ remote' = IF applied
                      THEN RemoteEffect(writes[w].kind, writes[w].val, remote)
                      ELSE remote
       /\ writes' = [writes EXCEPT ![w].pc = "invalidate",
                                   ![w].err = IF ok THEN "none" ELSE "remote",
                                   ![w].called = TRUE,
                                   ![w].applied = applied]
  /\ UNCHANGED <<format, ncm, contains, storeVars, gets, serverVars>>
  /\ UNCHANGED outsideCache

\* mutant: the operation returns without invalidating the key
WriteInvalidate_Skipped(w) ==
  /\ writes[w].pc = "invalidate"
  /\ writes' = [writes EXCEPT ![w].pc = "done"]
  /\ UNCHANGED <<remote, format, ncm, contains, storeVars, gets, serverVars>>
  /\ UNCHANGED outsideCache

\* the deferred ncm.nc.Invalidate(key), run when the operation returns
WriteInvalidate(w) ==
  /\ writes[w].pc = "invalidate"
  /\ Invalidate(writes[w].key)
  /\ writes' = [writes EXCEPT ![w].pc = "done", ![w].inv = @ + 1]
  /\ UNCHANGED <<remote, format, ncm, contains, gets, serverVars>>
  /\ UNCHANGED outsideCache

-----------------------------------------------------------------------------
(* nearCacheMap.ContainsKey *)

\* key, err = ncm.toNearCacheKey(key); if err != nil { return false, err }
ContainsToNearCacheKey(c) ==
  /\ ncm.pc = "constructed"
  /\ contains[c].pc = "call"
  /\ \E ok \in BOOLEAN :
       /\ ~ok => ncm.serializeKeys
       /\ contains' = [contains EXCEPT
            ![c].pc = IF ok THEN "lookup" ELSE "done",
            ![c].key = IF ok THEN toNearCacheKey(@) ELSE @,
            ![c].err = IF ok THEN "none" ELSE "key"]
  /\ UNCHANGED <<remote, format, ncm, storeVars, gets, writes, serverVars>>
  /\ UNCHANGED outsideCache

\* cached, ok, err := ncm.getCachedValue(key, false);
\* if ok { return cached != nil, nil }
ContainsCachedValue(c) ==
  /\ contains[c].pc = "lookup"
  /\ LET value == NearCacheGet(records[contains[c].key])[1]
         found == NearCacheGet(records[contains[c].key])[2] IN
       contains' = [contains EXCEPT
         ![c].pc = IF found THEN "done" ELSE "remote",
         ![c].hit = found,
         ![c].ret = IF found THEN value # Nil ELSE @]
  /\ UNCHANGED <<remote, format, ncm, storeVars, gets, writes, serverVars>>
  /\ UNCHANGED outsideCache

\* return m.containsKeyFromRemote(ctx, key)
ContainsKeyFromRemote(c) ==
  /\ contains[c].pc = "remote"
  /\ \E ok \in BOOLEAN :
       contains' = [contains EXCEPT
         ![c].pc = "done",
         ![c].called = TRUE,
         ![c].err = IF ok THEN "none" ELSE "remote",
         ![c].ret = IF ok THEN remote # Nil ELSE FALSE]
  /\ UNCHANGED <<remote, format, ncm, storeVars, gets, writes, serverVars>>
  /\ UNCHANGED outsideCache

-----------------------------------------------------------------------------
(* newNearCacheMap *)

\* if ncc.InvalidateOnChange() { if err := ncm.registerInvalidationListener(
\* ctx, name, p, local); err != nil { return nearCacheMap{}, ... } }
NewRegisterInvalidationListener ==
  /\ ncm.pc = "new"
  /\ IF ncm.invalidateOnChange
       THEN \E ok \in BOOLEAN :
              ncm' = [ncm EXCEPT !.pc = IF ok THEN "preload" ELSE "failed",
                                 !.listener = ok,
                                 !.ret = IF ok THEN @ ELSE "error"]
       ELSE ncm' = [ncm EXCEPT !.pc = "preload"]
  /\ UNCHANGED <<remote, format, storeVars, gets, writes, contains, serverVars>>
  /\ UNCHANGED outsideCache

\* if ncc.Preloader.Enabled { if err := ncm.preload(); ... }, where preload
\* is panic("implement me!")
NewPreload ==
  /\ ncm.pc = "preload"
  /\ ncm' = IF ncm.preloader
              THEN [ncm EXCEPT !.pc = "panicked", !.ret = "panic"]
              ELSE [ncm EXCEPT !.pc = "transform"]
  /\ UNCHANGED <<remote, format, storeVars, gets, writes, contains, serverVars>>
  /\ UNCHANGED outsideCache

\* ncm.toNearCacheKey = ... by ncc.SerializeKeys; return ncm, nil
NewSetToNearCacheKey ==
  /\ ncm.pc = "transform"
  /\ ncm' = [ncm EXCEPT !.pc = "constructed", !.ret = "ncm"]
  /\ UNCHANGED <<remote, format, storeVars, gets, writes, contains, serverVars>>
  /\ UNCHANGED outsideCache

-----------------------------------------------------------------------------
(* Server invalidation events *)

\* another client writes to the cluster: the key's entry, or another entry
\* of the same partition; the cluster sends an invalidation event
OtherClientPut ==
  /\ serverSeq < MaxEvents
  /\ \E value \in Values, sameKey \in BOOLEAN :
       /\ remote' = IF sameKey THEN value ELSE remote
       /\ inbox' = Append(inbox, [sameKey |-> sameKey, seq |-> serverSeq + 1])
  /\ serverSeq' = serverSeq + 1
  /\ UNCHANGED <<format, ncm, contains, storeVars, gets, writes, lastSeen>>
  /\ UNCHANGED outsideCache

\* an event does not reach the client
LoseEvent ==
  /\ inbox # <<>>
  /\ inbox' = Tail(inbox)
  /\ UNCHANGED <<remote, format, ncm, contains, storeVars, gets, writes, serverSeq, lastSeen>>
  /\ UNCHANGED outsideCache

\* the handler registerInvalidationListener installs: for an invalidation
\* message, ncm.handleInvalidationMsg(DecodeInvalidationMsg(msg)), which
\* writes a trace line and touches no record
HandleInvalidationMsg ==
  /\ ncm.listener
  /\ inbox # <<>>
  /\ inbox' = Tail(inbox)
  /\ lastSeen' = Head(inbox).seq
  /\ staleRecord' = (staleRecord \/ (Head(inbox).sameKey /\ slot.st = "present"))
  /\ gapRecord' = (gapRecord \/ (Head(inbox).seq > lastSeen + 1 /\ slot.st = "present"))
  /\ UNCHANGED <<remote, format, ncm, contains, records, nextRid, gets, writes, serverSeq>>
  /\ UNCHANGED outsideCache

-----------------------------------------------------------------------------
(* newNearCacheMap: an empty near cache over a map whose key holds         *)
(* initial at the cluster, with the callers of Get and of the mutating     *)
(* operations                                                              *)
NewGet == [pc |-> "call", key |-> UserKey, rid |-> RecordNotReserved, ret |-> Nil,
           err |-> "none", hit |-> FALSE, seen |-> Nil, stale |-> FALSE,
           fetches |-> 0, fetched |-> Nil, installed |-> FALSE, inv |-> 0,
           afterWrites |-> FALSE, leftReserved |-> FALSE]

NewWrite(kind, value) == [pc |-> "call", key |-> UserKey, kind |-> kind,
                          val |-> value, err |-> "none", called |-> FALSE,
                          applied |-> FALSE, inv |-> 0]

NewContains == [pc |-> "call", key |-> UserKey, err |-> "none", hit |-> FALSE,
                called |-> FALSE, ret |-> FALSE]

\* the near-cache configuration and the constructor about to run
NewNearCacheMap(invalidateOnChange, preloader, serializeKeys) ==
  [pc |-> "new", invalidateOnChange |-> invalidateOnChange,
   preloader |-> preloader, serializeKeys |-> serializeKeys,
   listener |-> FALSE, ret |-> "none"]

\* the nearCacheMap newNearCacheMap returns for a configuration with
\* InvalidateOnChange and SerializeKeys set and no preloader
ConstructedNearCacheMap ==
  [NewNearCacheMap(TRUE, FALSE, TRUE) EXCEPT
     !.pc = "constructed", !.listener = TRUE, !.ret = "ncm"]

\* the map and near cache behind a nearCacheMap, with the callers of its
\* operations
MapInit(getters, writers, kinds, formats, initial) ==
  /\ remote \in initial
  /\ format \in formats
  /\ records = [k \in CacheKeys |-> AbsentRecord]
  /\ nextRid = 1
  /\ staleRecord = FALSE
  /\ gapRecord = FALSE
  /\ gets = [g \in getters |-> NewGet]
  /\ writes \in [writers -> {NewWrite(k, v) : k \in kinds, v \in Values}]
  /\ serverSeq = 0
  /\ inbox = <<>>
  /\ lastSeen = 0

CacheInit(getters, writers, kinds, formats, initial) ==
  /\ MapInit(getters, writers, kinds, formats, initial)
  /\ ncm = ConstructedNearCacheMap
  /\ contains = << >>

\* no near-cached map in use
NoCache == CacheInit({}, {}, {}, {"object"}, {Nil})

-----------------------------------------------------------------------------
(* CP proxy names: strings are sequences of characters *)
MaxAt == 2
NumCpCaller == 2

CpCallers == 1..NumCpCaller

\* defaultGroupName, metadataCpGroupName
defaultGroupName == <<"d", "e", "f", "a", "u", "l", "t">>
metadataCpGroupName == <<"m", "e", "t", "a", "d", "a", "t", "a">>

IsSpace(c) == c = " "

\* strings.ToLower, on the letters the names are made of
LowerChar(c) == IF c = "D" THEN "d" ELSE IF c = "M" THEN "m" ELSE c
ToLower(s) == [i \in 1..Len(s) |-> LowerChar(s[i])]

\* strings.TrimSpace
RECURSIVE TrimLeft(_)
TrimLeft(s) == IF s # <<>> /\ IsSpace(Head(s)) THEN TrimLeft(Tail(s)) ELSE s

RECURSIVE TrimRight(_)
TrimRight(s) ==
  IF s # <<>> /\ IsSpace(s[Len(s)]) THEN TrimRight(SubSeq(s, 1, Len(s) - 1)) ELSE s

TrimSpace(s) == TrimRight(TrimLeft(s))

\* strings.Index(s, "@"): the 0-based index of the first '@', or -1
Index(s) ==
  IF \E i \in 1..Len(s) : s[i] = "@"
    THEN (CHOOSE i \in 1..Len(s) : s[i] = "@" /\ \A j \in 1..(i - 1) : s[j] # "@") - 1
    ELSE -1

\* the Go slices s[:idx] and s[idx+1:]
Before(s, idx) == SubSeq(s, 1, idx)
After(s, idx) == SubSeq(s, idx + 2, Len(s))

\* the names a caller may pass: an object part, then up to MaxAt groups,
\* each after an '@', with or without blanks around the parts
Pads == {<<>>, <<" ">>}
ObjectWords == {<<>>, <<"o", "b">>}
GroupWords == {<<>>, <<"c">>, defaultGroupName, metadataCpGroupName,
               <<"D", "e", "f", "a", "u", "l", "t">>,
               <<"M", "e", "t", "a", "d", "a", "t", "a">>}

RECURSIVE GroupSuffixes(_)
GroupSuffixes(k) ==
  IF k = 0 THEN {<<>>}
  ELSE {<<>>} \cup {<<"@">> \o p \o g \o q \o s :
                       p \in Pads, g \in GroupWords, q \in Pads,
                       s \in GroupSuffixes(k - 1)}

CPNames == {p \o o \o q \o s : p \in Pads, o \in ObjectWords, q \in Pads,
                               s \in GroupSuffixes(MaxAt)}

Ok(value) == [res |-> "ok", val |-> value]
Rejected(how) == [res |-> how, val |-> <<>>]

\* internal/cp: objectNameForProxy(name) (string, error)
objectNameForProxy(name) ==
  LET idx == Index(name) IN
  IF idx = -1 THEN Ok(name)
  ELSE IF TrimSpace(After(name, idx)) = <<>> THEN Rejected("error")
  ELSE IF TrimSpace(Before(name, idx)) = <<>> THEN Rejected("error")
  ELSE Ok(TrimSpace(Before(name, idx)))

\* internal/cp: withoutDefaultGroupName(proxyName) (string, error)
withoutDefaultGroupName(proxyName) ==
  LET name == TrimSpace(proxyName)
      idx == Index(name) IN
  IF idx = -1 THEN Ok(name)
  ELSE IF Index(After(name, idx)) # -1 THEN Rejected("error")
  ELSE IF ToLower(TrimSpace(After(name, idx))) = metadataCpGroupName
    THEN Rejected("error")
  ELSE IF ToLower(TrimSpace(After(name, idx))) = defaultGroupName
    THEN Ok(Before(name, idx))
  ELSE Ok(name)

\* cp: ProxyManager.objectNameForProxy(ctx, name) string, which panics
PMobjectNameForProxy(name) ==
  LET idx == Index(name) IN
  IF idx = -1 THEN Ok(name)
  ELSE IF Len(TrimSpace(After(name, idx))) <= 0 THEN Rejected("panic")
  ELSE IF Len(TrimSpace(Before(name, idx))) <= 0 THEN Rejected("panic")
  ELSE Ok(TrimSpace(Before(name, idx)))

\* cp: ProxyManager.withoutDefaultGroupName(ctx, proxyName) string, which panics
PMwithoutDefaultGroupName(proxyName) ==
  LET name == TrimSpace(proxyName)
      idx == Index(name) IN
  IF idx = -1 THEN Ok(name)
  ELSE IF Index(After(name, idx)) # -1 THEN Rejected("panic")
  ELSE IF ToLower(TrimSpace(After(name, idx))) = metadataCpGroupName
    THEN Rejected("panic")
  ELSE IF ToLower(TrimSpace(After(name, idx))) = defaultGroupName
    THEN Ok(Before(name, idx))
  ELSE Ok(name)

-----------------------------------------------------------------------------
(* internal/cp: proxyFactory.getAtomicLong / getOrCreateProxy *)

\* pxy, err := withoutDefaultGroupName(name); if err != nil { return nil, err }
FactoryWithoutDefaultGroupName(c) ==
  /\ cpCalls[c].impl = "factory"
  /\ cpCalls[c].pc = "call"
  /\ LET r == withoutDefaultGroupName(cpCalls[c].name) IN
       cpCalls' = [cpCalls EXCEPT
         ![c].pxy = r.val,
         ![c].ret = IF r.res = "ok" THEN "none" ELSE r.res,
         ![c].pc = IF r.res = "ok" THEN "objectName" ELSE "done"]
  /\ UNCHANGED <<proxies, nextProxy>>
  /\ UNCHANGED outsideCp

\* obj, err := objectNameForProxy(name); if err != nil { return nil, err }
FactoryObjectNameForProxy(c) ==
  /\ cpCalls[c].impl = "factory"
  /\ cpCalls[c].pc = "objectName"
  /\ LET r == objectNameForProxy(cpCalls[c].name) IN
       cpCalls' = [cpCalls EXCEPT
         ![c].obj = r.val,
         ![c].ret = IF r.res = "ok" THEN "none" ELSE r.res,
         ![c].pc = IF r.res = "ok" THEN "createGroup" ELSE "done"]
  /\ UNCHANGED <<proxies, nextProxy>>
  /\ UNCHANGED outsideCp

\* prxy := newProxy(...); gid, err := m.createGroupID(ctx, prxy, name), which
\* invokes on a random target; on error return nil, err; else
\* prxy.groupID = gid; return &AtomicLong{prxy}, nil
FactoryCreateGroupID(c) ==
  /\ cpCalls[c].impl = "factory"
  /\ cpCalls[c].pc = "createGroup"
  /\ \E ok \in BOOLEAN :
       /\ cpCalls' = [cpCalls EXCEPT
            ![c].created = @ + 1,
            ![c].sent = @ + 1,
            ![c].gid = IF ok THEN "set" ELSE "none",
            ![c].ret = IF ok THEN "proxy" ELSE "error",
            ![c].proxy = IF ok THEN nextProxy ELSE 0,
            ![c].pc = "done"]
       /\ nextProxy' = IF ok THEN nextProxy + 1 ELSE nextProxy
  /\ UNCHANGED proxies
  /\ UNCHANGED outsideCp

-----------------------------------------------------------------------------
(* cp: ProxyManager.GetAtomicLong / getOrCreateProxy *)

\* proxyName = m.withoutDefaultGroupName(ctx, proxyName)
ManagerWithoutDefaultGroupName(c) ==
  /\ cpCalls[c].impl = "manager"
  /\ cpCalls[c].pc = "call"
  /\ LET r == PMwithoutDefaultGroupName(cpCalls[c].name) IN
       cpCalls' = [cpCalls EXCEPT
         ![c].pxy = r.val,
         ![c].ret = IF r.res = "ok" THEN "none" ELSE r.res,
         ![c].pc = IF r.res = "ok" THEN "objectName" ELSE "done"]
  /\ UNCHANGED <<proxies, nextProxy>>
  /\ UNCHANGED outsideCp

\* objectName := m.objectNameForProxy(ctx, proxyName)
ManagerObjectNameForProxy(c) ==
  /\ cpCalls[c].impl = "manager"
  /\ cpCalls[c].pc = "objectName"
  /\ LET r == PMobjectNameForProxy(cpCalls[c].pxy) IN
       cpCalls' = [cpCalls EXCEPT
         ![c].obj = r.val,
         ![c].ret = IF r.res = "ok" THEN "none" ELSE r.res,
         ![c].pc = IF r.res = "ok" THEN "createGroup" ELSE "done"]
  /\ UNCHANGED <<proxies, nextProxy>>
  /\ UNCHANGED outsideCp

\* createGroupId called only when no proxy is cached under the name
ManagerCreateGroupId_WhenNotCached(c) ==
  /\ cpCalls[c].impl = "manager"
  /\ cpCalls[c].pc = "createGroup"
  /\ \E ok \in BOOLEAN :
       cpCalls' = [cpCalls EXCEPT
         ![c].sent = IF \E p \in proxies : p.name = cpCalls[c].pxy THEN @ ELSE @ + 1,
         ![c].gid = IF ok THEN "set" ELSE "nil",
         ![c].pc = "rlookup"]
  /\ UNCHANGED <<proxies, nextProxy>>
  /\ UNCHANGED outsideCp

\* groupId, _ := m.createGroupId(ctx, proxyName): the invocation is sent and
\* its error is dropped, leaving groupId nil
ManagerCreateGroupId(c) ==
  /\ cpCalls[c].impl = "manager"
  /\ cpCalls[c].pc = "createGroup"
  /\ \E ok \in BOOLEAN :
       cpCalls' = [cpCalls EXCEPT ![c].sent = @ + 1,
                                  ![c].gid = IF ok THEN "set" ELSE "nil",
                                  ![c].pc = "rlookup"]
  /\ UNCHANGED <<proxies, nextProxy>>
  /\ UNCHANGED outsideCp

\* the proxy cached under the name, as a set of at most one element
Cached(name) == {p \in proxies : p.name = name}

\* m.mu.RLock(); wrapper, ok := m.proxies[proxyName]; m.mu.RUnlock();
\* if ok { return wrapper, nil }
ManagerReadLookup(c) ==
  /\ cpCalls[c].impl = "manager"
  /\ cpCalls[c].pc = "rlookup"
  /\ IF Cached(cpCalls[c].pxy) # {}
       THEN cpCalls' = [cpCalls EXCEPT
              ![c].ret = "proxy",
              ![c].proxy = (CHOOSE p \in Cached(cpCalls[c].pxy) : TRUE).id,
              ![c].pc = "done"]
       ELSE cpCalls' = [cpCalls EXCEPT ![c].pc = "lock"]
  /\ UNCHANGED <<proxies, nextProxy>>
  /\ UNCHANGED outsideCp

\* mutant: the proxy is created under the lock without the second lookup
ManagerCreateLocked_NoRecheck(c) ==
  /\ cpCalls[c].impl = "manager"
  /\ cpCalls[c].pc = "lock"
  /\ \E ok \in BOOLEAN :
       /\ cpCalls' = [cpCalls EXCEPT
            ![c].created = IF ok THEN @ + 1 ELSE @,
            ![c].ret = IF ok THEN "proxy" ELSE "error",
            ![c].proxy = IF ok THEN nextProxy ELSE 0,
            ![c].pc = "done"]
       /\ proxies' = IF ok
            THEN proxies \cup {[name |-> cpCalls[c].pxy, id |-> nextProxy,
                                gid |-> cpCalls[c].gid]}
            ELSE proxies
       /\ nextProxy' = IF ok THEN nextProxy + 1 ELSE nextProxy
  /\ UNCHANGED outsideCp

\* m.mu.Lock(); defer m.mu.Unlock(); the second lookup; newProxy (which may
\* fail); wrapProxyFn; m.proxies[proxyName] = wrapper; return wrapper, nil
ManagerCreateLocked(c) ==
  /\ cpCalls[c].impl = "manager"
  /\ cpCalls[c].pc = "lock"
  /\ IF Cached(cpCalls[c].pxy) # {}
       THEN /\ cpCalls' = [cpCalls EXCEPT
                 ![c].ret = "proxy",
                 ![c].proxy = (CHOOSE p \in Cached(cpCalls[c].pxy) : TRUE).id,
                 ![c].pc = "done"]
            /\ UNCHANGED <<proxies, nextProxy>>
       ELSE \E ok \in BOOLEAN :
              /\ cpCalls' = [cpCalls EXCEPT
                   ![c].created = IF ok THEN @ + 1 ELSE @,
                   ![c].ret = IF ok THEN "proxy" ELSE "error",
                   ![c].proxy = IF ok THEN nextProxy ELSE 0,
                   ![c].pc = "done"]
              /\ proxies' = IF ok
                   THEN proxies \cup {[name |-> cpCalls[c].pxy, id |-> nextProxy,
                                       gid |-> cpCalls[c].gid]}
                   ELSE proxies
              /\ nextProxy' = IF ok THEN nextProxy + 1 ELSE nextProxy
  /\ UNCHANGED outsideCp

\* a caller about to call GetAtomicLong(ctx, name) on one implementation
NewCpCall(impl, name) ==
  [impl |-> impl, name |-> name, pc |-> "call", pxy |-> <<>>, obj |-> <<>>,
   gid |-> "none", ret |-> "none", sent |-> 0, created |-> 0, proxy |-> 0]

\* NewCpProxyManager: no proxy cached
CpInit(callers, impls, names) ==
  /\ cpCalls \in [callers -> {NewCpCall(i, n) : i \in impls, n \in names}]
  /\ proxies = {}
  /\ nextProxy = 1

NoCp == CpInit({}, {}, {})

-----------------------------------------------------------------------------
(* driver.QueryResult (src/examples/cp/atomic_long.go): paged rows          *)
NumQueryCloser == 2
MaxPages == 2
MaxRows == 2

QueryClosers == 1..NumQueryCloser

\* QueryResult.state
open == 0
closed == 1

\* the pages the member holds for one query: the last one carries Last, and
\* a result without columns has no rows
ResultPages(cols) ==
  {ps \in UNION {[1..k -> [rows : 0..MaxRows, last : BOOLEAN]] : k \in 1..MaxPages} :
     /\ \A i \in 1..Len(ps) : ps[i].last <=> i = Len(ps)
     /\ cols = 0 => \A i \in 1..Len(ps) : ps[i].rows = 0}

\* r.page
Page == qr.pages[qr.cur]

\* int32(len(cols[0]))
RowCount == Page.rows

\* QueryResult.Close: atomic.CompareAndSwapInt32(&r.state, open, closed)
QueryCloseCAS_Unconditional(t) ==
  /\ closes[t].pc = "cas"
  /\ closes' = [closes EXCEPT ![t].pc = "closeQuery",
                              ![t].sawClosed = qr.state = closed,
                              ![t].afterEOF = qr.eof]
  /\ qr' = [qr EXCEPT !.state = closed]
  /\ UNCHANGED nexts
  /\ UNCHANGED outsideQuery

QueryCloseCAS(t) ==
  /\ closes[t].pc = "cas"
  /\ closes' = [closes EXCEPT
       ![t].pc = IF qr.state = open THEN "closeQuery" ELSE "done",
       ![t].ret = IF qr.state = open THEN @ ELSE "nil",
       ![t].sawClosed = qr.state = closed,
       ![t].afterEOF = qr.eof]
  /\ qr' = [qr EXCEPT !.state = closed]
  /\ UNCHANGED nexts
  /\ UNCHANGED outsideQuery

\* if err := r.ss.closeQuery(r.queryID, r.conn); err != nil { return err }
QueryCloseQuery(t) ==
  /\ closes[t].pc = "closeQuery"
  /\ \E ok \in BOOLEAN :
       closes' = [closes EXCEPT ![t].pc = "done",
                                ![t].sent = TRUE,
                                ![t].ret = IF ok THEN "nil" ELSE "error"]
  /\ qr' = [qr EXCEPT !.closeSent = @ + 1]
  /\ UNCHANGED nexts
  /\ UNCHANGED outsideQuery

\* QueryResult.Next up to the fetch: no columns, page exhausted, or a row
NextCheck(n) ==
  /\ nexts[n].pc = "call"
  /\ IF qr.cols = 0
       THEN /\ nexts' = [nexts EXCEPT ![n].ret = "EOF"]
            /\ UNCHANGED qr
       ELSE IF qr.index >= RowCount
         THEN IF Page.last
                THEN /\ nexts' = [nexts EXCEPT ![n].ret = "EOF"]
                     /\ qr' = [qr EXCEPT !.state = closed, !.eof = TRUE]
                ELSE /\ nexts' = [nexts EXCEPT ![n].pc = "fetch"]
                     /\ UNCHANGED qr
         ELSE /\ nexts' = [nexts EXCEPT ![n].ret = "nil"]
              /\ qr' = [qr EXCEPT !.out = Append(@, <<qr.cur, qr.index + 1>>),
                                  !.index = @ + 1]
  /\ UNCHANGED closes
  /\ UNCHANGED outsideQuery

\* QueryResult.fetchNextPage
fetchNextPage(n) ==
  /\ nexts[n].pc = "fetch"
  /\ \E ok \in BOOLEAN :
       IF ok
         THEN /\ qr' = [qr EXCEPT !.cur = @ + 1, !.index = 0,
                                  !.early = @ \/ ~(qr.index >= RowCount /\ ~Page.last)]
              /\ nexts' = [nexts EXCEPT ![n].pc = "copy"]
         ELSE /\ UNCHANGED qr
              /\ nexts' = [nexts EXCEPT ![n].pc = "call", ![n].ret = "error"]
  /\ UNCHANGED closes
  /\ UNCHANGED outsideQuery

\* cols = r.page.Columns; dest[i] = cols[i][r.index]; r.index++; return nil
\* (index 0 of an empty column is out of range: Next panics)
NextCopyRow(n) ==
  /\ nexts[n].pc = "copy"
  /\ IF qr.index >= RowCount
       THEN /\ nexts' = [nexts EXCEPT ![n].pc = "panicked", ![n].ret = "panic"]
            /\ UNCHANGED qr
       ELSE /\ nexts' = [nexts EXCEPT ![n].pc = "call", ![n].ret = "nil"]
            /\ qr' = [qr EXCEPT !.out = Append(@, <<qr.cur, qr.index + 1>>),
                                !.index = @ + 1]
  /\ UNCHANGED closes
  /\ UNCHANGED outsideQuery

\* the results a query can have: the number of columns and the pages
ResultSets ==
  UNION {{[pages |-> ps, cols |-> c] : ps \in ResultPages(c)} : c \in {0, 1}}

\* NewQueryResult with the first page of one result, and the callers of
\* Next and Close
QueryInit(iterators, closers, results) ==
  /\ \E r \in results :
       qr = [pages |-> r.pages, cols |-> r.cols, cur |-> 1, index |-> 0,
             state |-> open, closeSent |-> 0, early |-> FALSE,
             eof |-> FALSE, out |-> <<>>]
  /\ nexts = [n \in iterators |-> [pc |-> "call", ret |-> "none"]]
  /\ closes = [t \in closers |-> [pc |-> "cas", ret |-> "none", sent |-> FALSE,
                                  sawClosed |-> FALSE, afterEOF |-> FALSE]]

NoQuery ==
  QueryInit({}, {}, {[pages |-> <<[rows |-> 0, last |-> TRUE]>>, cols |-> 0]})

-----------------------------------------------------------------------------
(* newClient: the state after construction, with the goroutines that will  *)
(* call start, Shutdown and the accessors                                  *)
ClientInit(starters, shutters, getters) ==
  /\ state = created
  /\ reached = {created}
  /\ spc = [t \in starters |-> "call"]
  /\ sret = [t \in starters |-> "none"]
  /\ dpc = [t \in shutters |-> "call"]
  /\ dret = [t \in shutters |-> "none"]
  /\ dcas = [t \in shutters |-> FALSE]
  /\ apc = [a \in getters |-> "call"]
  /\ aret = [a \in getters |-> "none"]
  /\ akind = [a \in getters |-> "GetMap"]
  /\ aread = [a \in getters |-> created]
  /\ pmCalled = [a \in getters |-> "none"]
  /\ starts = [c \in Components |-> 0]
  /\ stops = [c \in Components |-> 0]
  /\ cmFailed = FALSE
  /\ published = <<>>
  /\ handlerLog = [h \in ConfigHandlers |-> <<>>]
  /\ received = << >>
  /\ overlap = FALSE

(* The fields of a Connection before newConnection has dialled: no byte    *)
(* written, no worker started; the peer will send the bytes of input       *)
ConnectionFields(senders, closers, input) ==
  /\ status = 0
  /\ closedCh = 0
  /\ closedTime = FALSE
  /\ notified = 0
  /\ cpc = [t \in closers |-> IF t = 0 THEN "idle" ELSE "call"]
  /\ cwon = [t \in closers |-> FALSE]
  /\ pending = <<>>
  /\ mpc = [m \in senders |-> "call"]
  /\ mret = [m \in senders |-> "none"]
  /\ accepted = <<>>
  /\ request = 0
  /\ writeIndex = 0
  /\ remainingLen = 0
  /\ socketBroken = FALSE
  /\ sendingError = <<>>
  /\ lastWrite = FALSE
  /\ stream = input
  /\ nread = 0
  /\ readBuffer = <<>>
  /\ delivered = <<>>

(* newConnection about to dial *)
DialInit(senders, closers, input) ==
  /\ ConnectionFields(senders, closers, input)
  /\ npc = "dial"
  /\ assigned = ConstructedAttributes
  /\ wpc = "unstarted"
  /\ rpc = "unstarted"
  /\ socketOut = <<>>

(* newConnection returned a connection: the dial succeeded, the preamble   *)
(* was written and both workers are started                                *)
ConnectionInit(senders, closers, input) ==
  /\ ConnectionFields(senders, closers, input)
  /\ npc = "returned"
  /\ assigned = ConstructedAttributes \cup StoredAfterDial
  /\ wpc = "select"
  /\ rpc = "read"
  /\ socketOut = Preamble

-----------------------------------------------------------------------------
(* Lifecycle and membership listeners (src/unnamed/part_000)               *)
MaxClusterEvents == 1

ListenerOps == {"AddLifecycleListener", "RemoveLifecycleListener",
                "AddMembershipListener", "RemoveMembershipListener"}

\* the listener map an operation works on
MapOf(op) ==
  IF op \in {"AddLifecycleListener", "RemoveLifecycleListener"}
    THEN "lifecycle" ELSE "membership"

\* the handler a caller of an Add method passes
UserHandler(c) == NumConfigHandlers + c

\* the events a handler has received
LogOf(h) == IF h \in ConfigHandlers THEN handlerLog[h] ELSE received[h]

\* userEventDispatcher.SubscribeSync(event, id, handler)
SubscribeSync(table, event, id, handler) ==
  {s \in table : ~(s.event = event /\ s.id = id)}
    \cup {[event |-> event, id |-> id, handler |-> handler]}

\* userEventDispatcher.Unsubscribe(event, id)
Unsubscribe(table, event, id) ==
  {s \in table : ~(s.event = event /\ s.id = id)}

\* the client's fields that the listener methods only read
clientCore == <<state, reached, spc, sret, dpc, dret, dcas, apc, aret, akind,
                aread, pmCalled, starts, stops, cmFailed, published, overlap>>

\* if atomic.LoadInt32(&c.state) >= stopping { return ..., ErrClientNotReady };
\* a caller of a Remove method passes a UUID it was given, or any other
ListenerCheckState(c) ==
  /\ lcalls[c].pc = "call"
  /\ IF state >= stopping
       THEN lcalls' = [lcalls EXCEPT ![c].pc = "done",
                                     ![c].ret = ErrClientNotReady]
       ELSE IF lcalls[c].op \in {"AddLifecycleListener", "AddMembershipListener"}
         THEN lcalls' = [lcalls EXCEPT ![c].pc = "newID"]
         ELSE \E u \in 0..(nextUUID - 1) :
                lcalls' = [lcalls EXCEPT ![c].pc = "lock", ![c].uuid = u]
  /\ UNCHANGED <<subs, lifecyleListenerMap, membershipListenerMap, refID,
                 nextUUID, mapMu, clusterLog>>
  /\ UNCHANGED <<clientCore, handlerLog, received>>
  /\ UNCHANGED outsideListeners

\* uuid := types.NewUUID(); subscriptionID := c.refIDGen.NextID()
AddNewID(c) ==
  /\ lcalls[c].pc = "newID"
  /\ lcalls' = [lcalls EXCEPT ![c].pc = "subscribe", ![c].uuid = nextUUID,
                              ![c].id = refID + 1]
  /\ nextUUID' = nextUUID + 1
  /\ refID' = refID + 1
  /\ UNCHANGED <<subs, lifecyleListenerMap, membershipListenerMap, mapMu,
                 clusterLog>>
  /\ UNCHANGED <<clientCore, handlerLog, received>>
  /\ UNCHANGED outsideListeners

\* c.addLifecycleListener(subscriptionID, handler), and the first
\* SubscribeSync of c.addMembershipListener(subscriptionID, handler)
AddSubscribe(c) ==
  /\ lcalls[c].pc = "subscribe"
  /\ IF lcalls[c].op = "AddLifecycleListener"
       THEN /\ subs' = SubscribeSync(subs, eventLifecycleEventStateChanged,
                                     lcalls[c].id, UserHandler(c))
            /\ lcalls' = [lcalls EXCEPT ![c].pc = "store"]
       ELSE /\ subs' = SubscribeSync(subs, EventMembersAdded, lcalls[c].id,
                                     UserHandler(c))
            /\ lcalls' = [lcalls EXCEPT ![c].pc = "subscribeRemoved"]
  /\ received' = received @@ (UserHandler(c) :> <<>>)
  /\ UNCHANGED <<lifecyleListenerMap, membershipListenerMap, refID, nextUUID,
                 mapMu, clusterLog>>
  /\ UNCHANGED <<clientCore, handlerLog>>
  /\ UNCHANGED outsideListeners

\* the second SubscribeSync of c.addMembershipListener
AddSubscribeRemoved(c) ==
  /\ lcalls[c].pc = "subscribeRemoved"
  /\ subs' = SubscribeSync(subs, EventMembersRemoved, lcalls[c].id, UserHandler(c))
  /\ lcalls' = [lcalls EXCEPT ![c].pc = "store"]
  /\ UNCHANGED <<lifecyleListenerMap, membershipListenerMap, refID, nextUUID,
                 mapMu, clusterLog>>
  /\ UNCHANGED <<clientCore, handlerLog, received>>
  /\ UNCHANGED outsideListeners

\* c.lifecyleListenerMapMu.Lock(); c.lifecyleListenerMap[uuid] =
\* subscriptionID; Unlock(); return uuid, nil (and the membership sibling)
AddStore(c) ==
  /\ lcalls[c].pc = "store"
  /\ mapMu[MapOf(lcalls[c].op)] = 0
  /\ IF lcalls[c].op = "AddLifecycleListener"
       THEN /\ lifecyleListenerMap' =
                 lifecyleListenerMap @@ (lcalls[c].uuid :> lcalls[c].id)
            /\ UNCHANGED membershipListenerMap
       ELSE /\ membershipListenerMap' =
                 membershipListenerMap @@ (lcalls[c].uuid :> lcalls[c].id)
            /\ UNCHANGED lifecyleListenerMap
  /\ lcalls' = [lcalls EXCEPT ![c].pc = "done", ![c].ret = "nil"]
  /\ UNCHANGED <<subs, refID, nextUUID, mapMu, clusterLog>>
  /\ UNCHANGED <<clientCore, handlerLog, received>>
  /\ UNCHANGED outsideListeners

\* the handler subscribed under the internal id, 0 when there is none
HandlerOf(id) ==
  IF \E s \in subs : s.id = id
    THEN (CHOOSE s \in subs : s.id = id).handler ELSE 0

\* mutant: removing a membership listener unsubscribes only the
\* members-added subscription
RemoveUnsubscribeRemoved_Kept(c) ==
  /\ lcalls[c].pc = "unsubscribeRemoved"
  /\ mapMu["membership"] = c
  /\ membershipListenerMap' =
       [u \in DOMAIN membershipListenerMap \ {lcalls[c].uuid} |->
          membershipListenerMap[u]]
  /\ mapMu' = [mapMu EXCEPT !["membership"] = 0]
  /\ lcalls' = [lcalls EXCEPT ![c].pc = "done", ![c].ret = "nil",
                              ![c].logAtReturn = LogOf(lcalls[c].handler)]
  /\ UNCHANGED <<subs, lifecyleListenerMap, refID, nextUUID, clusterLog>>
  /\ UNCHANGED <<clientCore, handlerLog, received>>
  /\ UNCHANGED outsideListeners

\* c.userEventDispatcher.Unsubscribe(icluster.EventMembersRemoved, intID);
\* delete(c.membershipListenerMap, subscriptionID);
\* c.membershipListenerMapMu.Unlock(); return nil
RemoveUnsubscribeRemoved(c) ==
  /\ lcalls[c].pc = "unsubscribeRemoved"
  /\ mapMu["membership"] = c
  /\ subs' = Unsubscribe(subs, EventMembersRemoved, lcalls[c].id)
  /\ membershipListenerMap' =
       [u \in DOMAIN membershipListenerMap \ {lcalls[c].uuid} |->
          membershipListenerMap[u]]
  /\ mapMu' = [mapMu EXCEPT !["membership"] = 0]
  /\ lcalls' = [lcalls EXCEPT ![c].pc = "done", ![c].ret = "nil",
                              ![c].logAtReturn = LogOf(lcalls[c].handler)]
  /\ UNCHANGED <<lifecyleListenerMap, refID, nextUUID, clusterLog>>
  /\ UNCHANGED <<clientCore, handlerLog, received>>
  /\ UNCHANGED outsideListeners

\* mutant: removing a UUID that has no listener is an error
RemoveLocked_Strict(c) ==
  /\ lcalls[c].pc = "lock"
  /\ mapMu[MapOf(lcalls[c].op)] = 0
  /\ IF lcalls[c].op = "RemoveLifecycleListener"
       THEN IF lcalls[c].uuid \in DOMAIN lifecyleListenerMap
         THEN /\ subs' = Unsubscribe(subs, eventLifecycleEventStateChanged,
                                     lifecyleListenerMap[lcalls[c].uuid])
              /\ lifecyleListenerMap' =
                   [u \in DOMAIN lifecyleListenerMap \ {lcalls[c].uuid} |->
                      lifecyleListenerMap[u]]
              /\ lcalls' = [lcalls EXCEPT
                   ![c].pc = "done", ![c].ret = "nil", ![c].found = TRUE,
                   ![c].id = lifecyleListenerMap[lcalls[c].uuid],
                   ![c].handler = HandlerOf(lifecyleListenerMap[lcalls[c].uuid]),
                   ![c].logAtReturn =
                      LogOf(HandlerOf(lifecyleListenerMap[lcalls[c].uuid]))]
              /\ UNCHANGED mapMu
         ELSE /\ lcalls' = [lcalls EXCEPT ![c].pc = "done",
                                          ![c].ret = "ErrUnknownListener"]
              /\ UNCHANGED <<subs, lifecyleListenerMap, mapMu>>
       ELSE IF lcalls[c].uuid \in DOMAIN membershipListenerMap
         THEN /\ subs' = Unsubscribe(subs, EventMembersAdded,
                                     membershipListenerMap[lcalls[c].uuid])
              /\ mapMu' = [mapMu EXCEPT !["membership"] = c]
              /\ lcalls' = [lcalls EXCEPT
                   ![c].pc = "unsubscribeRemoved", ![c].found = TRUE,
                   ![c].id = membershipListenerMap[lcalls[c].uuid],
                   ![c].handler = HandlerOf(membershipListenerMap[lcalls[c].uuid])]
              /\ UNCHANGED lifecyleListenerMap
         ELSE /\ lcalls' = [lcalls EXCEPT ![c].pc = "done",
                                          ![c].ret = "ErrUnknownListener"]
              /\ UNCHANGED <<subs, lifecyleListenerMap, mapMu>>
  /\ UNCHANGED <<membershipListenerMap, refID, nextUUID, clusterLog>>
  /\ UNCHANGED <<clientCore, handlerLog, received>>
  /\ UNCHANGED outsideListeners

\* c.lifecyleListenerMapMu.Lock(); if intID, ok := c.lifecyleListenerMap[
\* subscriptionID]; ok { Unsubscribe(eventLifecycleEventStateChanged, intID);
\* delete(...) }; Unlock(); return nil.  The membership sibling holds its
\* lock over two Unsubscribe calls, the first of which is made here.
RemoveLocked(c) ==
  /\ lcalls[c].pc = "lock"
  /\ mapMu[MapOf(lcalls[c].op)] = 0
  /\ IF lcalls[c].op = "RemoveLifecycleListener"
       THEN IF lcalls[c].uuid \in DOMAIN lifecyleListenerMap
         THEN /\ subs' = Unsubscribe(subs, eventLifecycleEventStateChanged,
                                     lifecyleListenerMap[lcalls[c].uuid])
              /\ lifecyleListenerMap' =
                   [u \in DOMAIN lifecyleListenerMap \ {lcalls[c].uuid} |->
                      lifecyleListenerMap[u]]
              /\ lcalls' = [lcalls EXCEPT
                   ![c].pc = "done", ![c].ret = "nil", ![c].found = TRUE,
                   ![c].id = lifecyleListenerMap[lcalls[c].uuid],
                   ![c].handler = HandlerOf(lifecyleListenerMap[lcalls[c].uuid]),
                   ![c].logAtReturn =
                      LogOf(HandlerOf(lifecyleListenerMap[lcalls[c].uuid]))]
              /\ UNCHANGED mapMu
         ELSE /\ lcalls' = [lcalls EXCEPT ![c].pc = "done", ![c].ret = "nil"]
              /\ UNCHANGED <<subs, lifecyleListenerMap, mapMu>>
       ELSE IF lcalls[c].uuid \in DOMAIN membershipListenerMap
         THEN /\ subs' = Unsubscribe(subs, EventMembersAdded,
                                     membershipListenerMap[lcalls[c].uuid])
              /\ mapMu' = [mapMu EXCEPT !["membership"] = c]
              /\ lcalls' = [lcalls EXCEPT
                   ![c].pc = "unsubscribeRemoved", ![c].found = TRUE,
                   ![c].id = membershipListenerMap[lcalls[c].uuid],
                   ![c].handler = HandlerOf(membershipListenerMap[lcalls[c].uuid])]
              /\ UNCHANGED lifecyleListenerMap
         ELSE /\ lcalls' = [lcalls EXCEPT ![c].pc = "done", ![c].ret = "nil"]
              /\ UNCHANGED <<subs, lifecyleListenerMap, mapMu>>
  /\ UNCHANGED <<membershipListenerMap, refID, nextUUID, clusterLog>>
  /\ UNCHANGED <<clientCore, handlerLog, received>>
  /\ UNCHANGED outsideListeners

LifecycleStateClientConnected == "client-connected"
LifecycleStateClientDisconnected == "client-disconnected"
EventConnected == "connected"
EventDisconnected == "disconnected"
MembershipStateAdded == "added"
MembershipStateRemoved == "removed"

\* the member lists a members-added or members-removed event carries
MemberLists == {<<1>>, <<2, 1>>}

\* the events the cluster and connection services publish
ClusterEvents ==
  {[name |-> n, members |-> <<>>] : n \in {EventConnected, EventDisconnected}}
    \cup {[name |-> n, members |-> ms] :
            n \in {EventMembersAdded, EventMembersRemoved}, ms \in MemberLists}

\* mutant: a membership handler is called for the first member only
MembershipCalls_FirstOnly(st, members) ==
  [i \in 1..1 |-> [state |-> st, member |-> members[i]]]

\* for _, member := range e.Members { handler(cluster.MembershipStateChanged{
\* State: ..., Member: member}) }
MembershipCalls(st, members) ==
  [i \in 1..Len(members) |-> [state |-> st, member |-> members[i]]]

\* userEventDispatcher.Publish(event) of a members-added or members-removed
\* event: the subscribers made by addMembershipListener run inline
UserPublishMembers(ev) ==
  IF DispatcherRunning("userEventDispatcher")
    THEN received' = [h \in DOMAIN received |->
           IF Subscribed(ev.name, h)
             THEN received[h] \o MembershipCalls(
                    IF ev.name = EventMembersAdded
                      THEN MembershipStateAdded ELSE MembershipStateRemoved,
                    ev.members)
             ELSE received[h]]
    ELSE UNCHANGED received

\* eventDispatcher.Publish(ev) by the cluster service or the connection
\* manager; the subscribers made by subscribeUserEvents run inline
PublishCluster(ev) ==
  /\ clusterLog.n < MaxClusterEvents
  /\ DispatcherRunning("eventDispatcher")
  /\ clusterLog' = [n |-> clusterLog.n + 1, last |-> ev]
  /\ IF ev.name = EventConnected
       THEN UserPublish(LifecycleStateClientConnected)
       ELSE IF ev.name = EventDisconnected
         THEN UserPublish(LifecycleStateClientDisconnected)
         ELSE UserPublishMembers(ev) /\ UNCHANGED handlerLog
  /\ UNCHANGED <<subs, lifecyleListenerMap, membershipListenerMap, refID,
                 nextUUID, mapMu, lcalls>>
  /\ UNCHANGED clientCore
  /\ UNCHANGED outsideListeners

\* a call of one of the four listener methods
NewListenerCall(op) ==
  [op |-> op, pc |-> "call", ret |-> "none", uuid |-> 0, id |-> 0,
   found |-> FALSE, handler |-> 0, logAtReturn |-> <<>>]

\* newClient: addConfigEvents subscribes the configuration's lifecycle
\* handlers, each under the next reference id and its configured UUID
ListenerInit(callers, ops) ==
  /\ subs = {[event |-> eventLifecycleEventStateChanged, id |-> h,
              handler |-> h] : h \in ConfigHandlers}
  /\ lifecyleListenerMap = [h \in ConfigHandlers |-> h]
  /\ membershipListenerMap = << >>
  /\ refID = NumConfigHandlers
  /\ nextUUID = NumConfigHandlers + 1
  /\ mapMu = [m \in {"lifecycle", "membership"} |-> 0]
  /\ lcalls \in [callers -> {NewListenerCall(op) : op \in ops}]
  /\ clusterLog = [n |-> 0, last |-> [name |-> "none", members |-> <<>>]]

NoListeners == ListenerInit({}, {})

-----------------------------------------------------------------------------
(* nearcache.Stats.Ratio (src/nearcache/types.go)                          *)
MaxStat == 7

\* float64 values: NaN, +Inf, or a number kept as numerator and denominator
NaN == [kind |-> "NaN", num |-> 0, den |-> 1]
Inf == [kind |-> "+Inf", num |-> 0, den |-> 1]
Float64(n) == [kind |-> "number", num |-> n, den |-> 1]
Quotient(a, b) == [kind |-> "number", num |-> a.num * b.den, den |-> a.den * b.num]
Product(a, b) == [kind |-> "number", num |-> a.num * b.num, den |-> a.den * b.den]

\* the hit rate hits / (hits + misses) * 100
Ratio_OfAllReads(s) ==
  IF s.Misses = 0
    THEN IF s.Hits = 0 THEN NaN ELSE Inf
    ELSE Product(Quotient(Float64(s.Hits), Float64(s.Hits + s.Misses)), Float64(100))

\* func (s Stats) Ratio() float64
Ratio(s) ==
  IF s.Misses = 0
    THEN IF s.Hits = 0 THEN NaN ELSE Inf
    ELSE Product(Quotient(Float64(s.Hits), Float64(s.Misses)), Float64(100))

\* a caller evaluates s.Ratio()
CallRatio ==
  /\ stats.pc = "call"
  /\ stats' = [stats EXCEPT !.ret = Ratio(stats.s), !.pc = "done"]
  /\ UNCHANGED outsideStats

\* a Stats value with the given counters, about to be asked for its ratio
StatsInit(counts) ==
  \E h, m \in counts :
    stats = [s |-> [Hits |-> h, Misses |-> m], pc |-> "call", ret |-> NaN]

NoStats == StatsInit({0})

\* the components a specification of another component leaves unused
NoOther == NoQuery /\ NoStats /\ NoListeners

-----------------------------------------------------------------------------
(* The lifecycle of one client: concurrent start and Shutdown callers *)
Init == ClientInit(StartCallers, ShutdownCallers, {}) /\ ConnectionInit({}, {0}, <<>>) /\ NoCache /\ NoCp /\ NoOther

Next ==
  \/ \E t \in DOMAIN spc : StartCAS(t)
  \/ \E t \in DOMAIN spc : StartPublishStarting(t)
  \/ \E t \in DOMAIN spc : StartClusterService(t)
  \/ \E t \in DOMAIN spc : StartConnectionManager(t)
  \/ \E t \in DOMAIN spc : StartFailStopCluster(t)
  \/ \E t \in DOMAIN spc : StartFailStopDispatcher(t)
  \/ \E t \in DOMAIN spc : StartFailStopUserDispatcher(t)
  \/ \E t \in DOMAIN spc : StartStoreReady(t)
  \/ \E t \in DOMAIN spc : StartPublishStarted(t)
  \/ \E t \in DOMAIN dpc : ShutdownCAS(t)
  \/ \E t \in DOMAIN dpc : ShutdownPublishShuttingDown(t)
  \/ \E t \in DOMAIN dpc : ShutdownStopInvocation(t)
  \/ \E t \in DOMAIN dpc : ShutdownStopCluster(t)
  \/ \E t \in DOMAIN dpc : ShutdownStopConnectionManager(t)
  \/ \E t \in DOMAIN dpc : ShutdownStoreStopped(t)
  \/ \E t \in DOMAIN dpc : ShutdownPublishShutDown(t)
  \/ \E t \in DOMAIN dpc : ShutdownStopDispatcher(t)
  \/ \E t \in DOMAIN dpc : ShutdownStopUserDispatcher(t)

Spec == Init /\ [][Next]_vars

(* One client started once, with two Shutdown calls and accessor calls at any time *)
AccessInit == ClientInit({1}, {1, 2}, AccessorCallers) /\ ConnectionInit({}, {0}, <<>>) /\ NoCache /\ NoCp /\ NoOther

AccessNext ==
  \/ Next
  \/ \E a \in DOMAIN apc : AccessorLoad(a)
  \/ \E a \in DOMAIN apc : AccessorReturn(a)

SpecAccess == AccessInit /\ [][AccessNext]_vars

(* One connection: send callers, the writer worker and close callers; the  *)
(* peer sends nothing and the read worker can only fail                    *)
ConnInit == ClientInit({}, {}, {}) /\ ConnectionInit(Senders, Closers, <<>>) /\ NoCache /\ NoCp /\ NoOther

ConnNext ==
  \/ \E t \in DOMAIN cpc : CloseCAS(t)
  \/ \E t \in DOMAIN cpc : CloseChannel(t)
  \/ \E t \in DOMAIN cpc : CloseStoreTime(t)
  \/ \E t \in DOMAIN cpc : CloseNotify(t)
  \/ \E m \in DOMAIN mpc : SendCheckAlive(m)
  \/ \E m \in DOMAIN mpc : SendSelectClosed(m)
  \/ \E m \in DOMAIN mpc : SendSelectPending(m)
  \/ WriterTakePending
  \/ WriterSeeClosed
  \/ WriterSocketWrite
  \/ WriterSocketWriteError
  \/ WriterReportError
  \/ ReceiveSendingError
  \/ ReaderReadError

SpecConn == ConnInit /\ [][ConnNext]_vars

(* A connection with two send callers, the read worker and one outside     *)
(* caller of close, with the goroutines scheduled fairly: a send caller,   *)
(* the writer worker and a close call that has begun keep running, the      *)
(* socket answers every Write, and the invocation service keeps receiving   *)
(* from sendingError. Whether close is called, and whether the socket       *)
(* fails, stays open.                                                       *)
FairSenders == {1, 2}
FairClosers == {0, 1}

ConnFairInit ==
  /\ ClientInit({}, {}, {})
  /\ ConnectionInit(FairSenders, FairClosers, <<>>)
  /\ NoCache /\ NoCp /\ NoOther

ConnFairness ==
  /\ \A m \in FairSenders :
       WF_vars(SendCheckAlive(m) \/ SendSelectClosed(m) \/ SendSelectPending(m))
  /\ WF_vars(WriterTakePending \/ WriterSeeClosed \/ WriterSocketWrite
               \/ WriterSocketWriteError \/ WriterReportError)
  /\ WF_vars(ReceiveSendingError)
  /\ WF_vars(CloseCAS(0))
  /\ \A t \in FairClosers :
       WF_vars(CloseChannel(t) \/ CloseStoreTime(t) \/ CloseNotify(t))

SpecConnFair == ConnFairInit /\ [][ConnNext]_vars /\ ConnFairness

(* newConnection and the first frames: the constructor, send callers and   *)
(* the writer worker                                                       *)
DialSpecInit == ClientInit({}, {}, {}) /\ DialInit(Senders, {0}, <<>>) /\ NoCache /\ NoCp /\ NoOther

DialNext ==
  \/ NewConnectionDial
  \/ NewConnectionWritePreamble
  \/ NewConnectionStartWriter
  \/ NewConnectionStartReader
  \/ \E m \in DOMAIN mpc : SendCheckAlive(m)
  \/ \E m \in DOMAIN mpc : SendSelectClosed(m)
  \/ \E m \in DOMAIN mpc : SendSelectPending(m)
  \/ WriterTakePending
  \/ WriterSeeClosed
  \/ WriterSocketWrite
  \/ WriterSocketWriteError
  \/ WriterReportError
  \/ ReceiveSendingError
  \/ ReaderReadError
  \/ \E t \in DOMAIN cpc : CloseCAS(t)
  \/ \E t \in DOMAIN cpc : CloseChannel(t)
  \/ \E t \in DOMAIN cpc : CloseStoreTime(t)
  \/ \E t \in DOMAIN cpc : CloseNotify(t)

SpecDial == DialSpecInit /\ [][DialNext]_vars

(* One near-cached map: concurrent Get callers and one Put on the same     *)
(* key; no other client writes                                             *)
CacheSpecInit ==
  /\ ClientInit({}, {}, {})
  /\ ConnectionInit({}, {0}, <<>>)
  /\ CacheInit(GetCallers, {1}, {"Put"}, {"binary", "object"}, {Nil, 1})
  /\ NoCp /\ NoOther

CacheNext ==
  \/ \E g \in DOMAIN gets : GetToNearCacheKey(g)
  \/ \E g \in DOMAIN gets : GetCachedValue(g)
  \/ \E g \in DOMAIN gets : GetValidateAndSerialize(g)
  \/ \E g \in DOMAIN gets : GetReserve(g)
  \/ \E g \in DOMAIN gets : GetFromRemote(g)
  \/ \E g \in DOMAIN gets : GetPublish(g)
  \/ \E g \in DOMAIN gets : GetInvalidate(g)
  \/ \E w \in DOMAIN writes : WriteToNearCacheKey(w)
  \/ \E w \in DOMAIN writes : WriteRemote(w)
  \/ \E w \in DOMAIN writes : WriteInvalidate(w)

SpecCache == CacheSpecInit /\ [][CacheNext]_vars

(* One near-cached map: callers of the nine mutating operations on one     *)
(* key, and one Get caller that may fill the near cache                    *)
WriteSpecInit ==
  /\ ClientInit({}, {}, {})
  /\ ConnectionInit({}, {0}, <<>>)
  /\ CacheInit({1}, WriteCallers, WriteOps, {"object"}, {Nil, 1})
  /\ NoCp /\ NoOther

SpecWrite == WriteSpecInit /\ [][CacheNext]_vars

(* One near-cached map with an invalidation listener: Get callers, writes  *)
(* of other clients and the invalidation events they cause                 *)
InvalidationSpecInit ==
  /\ ClientInit({}, {}, {})
  /\ ConnectionInit({}, {0}, <<>>)
  /\ CacheInit(GetCallers, {}, {}, {"object"}, Values)
  /\ NoCp /\ NoOther

InvalidationNext ==
  \/ \E g \in DOMAIN gets : GetToNearCacheKey(g)
  \/ \E g \in DOMAIN gets : GetCachedValue(g)
  \/ \E g \in DOMAIN gets : GetValidateAndSerialize(g)
  \/ \E g \in DOMAIN gets : GetReserve(g)
  \/ \E g \in DOMAIN gets : GetFromRemote(g)
  \/ \E g \in DOMAIN gets : GetPublish(g)
  \/ \E g \in DOMAIN gets : GetInvalidate(g)
  \/ OtherClientPut
  \/ LoseEvent
  \/ HandleInvalidationMsg

SpecInvalidation == InvalidationSpecInit /\ [][InvalidationNext]_vars

(* One GetAtomicLong call with any name, on the proxy factory or on the    *)
(* proxy manager                                                           *)
CpSpecInit ==
  /\ ClientInit({}, {}, {})
  /\ ConnectionInit({}, {0}, <<>>)
  /\ NoCache
  /\ CpInit({1}, {"factory", "manager"}, CPNames)
  /\ NoOther

CpNext ==
  \/ \E c \in DOMAIN cpCalls : FactoryWithoutDefaultGroupName(c)
  \/ \E c \in DOMAIN cpCalls : FactoryObjectNameForProxy(c)
  \/ \E c \in DOMAIN cpCalls : FactoryCreateGroupID(c)
  \/ \E c \in DOMAIN cpCalls : ManagerWithoutDefaultGroupName(c)
  \/ \E c \in DOMAIN cpCalls : ManagerObjectNameForProxy(c)
  \/ \E c \in DOMAIN cpCalls : ManagerCreateGroupId(c)
  \/ \E c \in DOMAIN cpCalls : ManagerReadLookup(c)
  \/ \E c \in DOMAIN cpCalls : ManagerCreateLocked(c)

SpecCp == CpSpecInit /\ [][CpNext]_vars

(* One QueryResult: one caller of Next and concurrent callers of Close   *)
QuerySpecInit ==
  /\ ClientInit({}, {}, {})
  /\ ConnectionInit({}, {0}, <<>>)
  /\ NoCache /\ NoCp
  /\ QueryInit({1}, QueryClosers, ResultSets)
  /\ NoStats /\ NoListeners

QueryNext ==
  \/ \E t \in DOMAIN closes : QueryCloseCAS(t)
  \/ \E t \in DOMAIN closes : QueryCloseQuery(t)
  \/ \E n \in DOMAIN nexts : NextCheck(n)
  \/ \E n \in DOMAIN nexts : fetchNextPage(n)
  \/ \E n \in DOMAIN nexts : NextCopyRow(n)

SpecQuery == QuerySpecInit /\ [][QueryNext]_vars

(* Concurrent GetAtomicLong calls on one proxy manager, with names of the *)
(* same and of different proxies                                           *)
ManagerNames ==
  {<<"o", "b">>, <<"o", "b", "@">> \o defaultGroupName, <<"o", "b", "@", "c">>}

ManagerSpecInit ==
  /\ ClientInit({}, {}, {})
  /\ ConnectionInit({}, {0}, <<>>)
  /\ NoCache
  /\ CpInit(CpCallers, {"manager"}, ManagerNames)
  /\ NoOther

ManagerNext ==
  \/ \E c \in DOMAIN cpCalls : ManagerWithoutDefaultGroupName(c)
  \/ \E c \in DOMAIN cpCalls : ManagerObjectNameForProxy(c)
  \/ \E c \in DOMAIN cpCalls : ManagerCreateGroupId(c)
  \/ \E c \in DOMAIN cpCalls : ManagerReadLookup(c)
  \/ \E c \in DOMAIN cpCalls : ManagerCreateLocked(c)

SpecManager == ManagerSpecInit /\ [][ManagerNext]_vars

(* Stats values with every pair of counters, each asked for its ratio      *)
StatsSpecInit ==
  /\ ClientInit({}, {}, {})
  /\ ConnectionInit({}, {0}, <<>>)
  /\ NoCache /\ NoCp /\ NoQuery /\ NoListeners
  /\ StatsInit(0..MaxStat)

StatsNext == CallRatio

SpecStats == StatsSpecInit /\ [][StatsNext]_vars
(* Two callers of the listener methods of a started client, one Shutdown   *)
(* caller, and the cluster publishing connection and membership events     *)
\* the client after start has returned nil: ready, the cluster service and
\* the connection manager started, both lifecycle events of start delivered
StartedClient(shutters) ==
  /\ state = ready
  /\ reached = {created, starting, ready}
  /\ spc = [t \in {1} |-> "done"]
  /\ sret = [t \in {1} |-> "nil"]
  /\ dpc = [t \in shutters |-> "call"]
  /\ dret = [t \in shutters |-> "none"]
  /\ dcas = [t \in shutters |-> FALSE]
  /\ apc = << >>
  /\ aret = << >>
  /\ akind = << >>
  /\ aread = << >>
  /\ pmCalled = << >>
  /\ starts = [c \in Components |->
                 IF c \in {"clusterService", "connectionManager"} THEN 1 ELSE 0]
  /\ stops = [c \in Components |-> 0]
  /\ cmFailed = FALSE
  /\ published = <<LifecycleStateStarting, LifecycleStateStarted>>
  /\ handlerLog = [h \in ConfigHandlers |->
                     <<LifecycleStateStarting, LifecycleStateStarted>>]
  /\ received = << >>
  /\ overlap = FALSE

ListenersSpecInit ==
  /\ StartedClient({1})
  /\ ConnectionInit({}, {0}, <<>>)
  /\ NoCache /\ NoCp /\ NoQuery /\ NoStats
  /\ ListenerInit({1, 2}, ListenerOps)

ListenersNext ==
  \/ \E t \in DOMAIN dpc : ShutdownCAS(t)
  \/ \E t \in DOMAIN dpc : ShutdownPublishShuttingDown(t)
  \/ \E t \in DOMAIN dpc : ShutdownStopInvocation(t)
  \/ \E t \in DOMAIN dpc : ShutdownStopCluster(t)
  \/ \E t \in DOMAIN dpc : ShutdownStopConnectionManager(t)
  \/ \E t \in DOMAIN dpc : ShutdownStoreStopped(t)
  \/ \E t \in DOMAIN dpc : ShutdownPublishShutDown(t)
  \/ \E t \in DOMAIN dpc : ShutdownStopDispatcher(t)
  \/ \E t \in DOMAIN dpc : ShutdownStopUserDispatcher(t)
  \/ \E c \in DOMAIN lcalls : ListenerCheckState(c)
  \/ \E c \in DOMAIN lcalls : AddNewID(c)
  \/ \E c \in DOMAIN lcalls : AddSubscribe(c)
  \/ \E c \in DOMAIN lcalls : AddSubscribeRemoved(c)
  \/ \E c \in DOMAIN lcalls : AddStore(c)
  \/ \E c \in DOMAIN lcalls : RemoveLocked(c)
  \/ \E c \in DOMAIN lcalls : RemoveUnsubscribeRemoved(c)
  \/ \E ev \in ClusterEvents : PublishCluster(ev)

SpecListeners == ListenersSpecInit /\ [][ListenersNext]_vars


(* newNearCacheMap with every configuration, then one caller each of      *)
(* Get, of a mutating operation and of ContainsKey on the same key         *)
KeysSpecInit ==
  /\ ClientInit({}, {}, {})
  /\ ConnectionInit({}, {0}, <<>>)
  /\ MapInit({1}, {1}, WriteOps, {"object"}, {Nil, 1})
  /\ ncm \in {NewNearCacheMap(i, p, s) : i \in BOOLEAN, p \in BOOLEAN, s \in BOOLEAN}
  /\ contains = [c \in {1} |-> NewContains]
  /\ NoCp /\ NoOther

KeysNext ==
  \/ NewRegisterInvalidationListener
  \/ NewPreload
  \/ NewSetToNearCacheKey
  \/ \E c \in DOMAIN contains : ContainsToNearCacheKey(c)
  \/ \E c \in DOMAIN contains : ContainsCachedValue(c)
  \/ \E c \in DOMAIN contains : ContainsKeyFromRemote(c)
  \/ CacheNext

SpecKeys == KeysSpecInit /\ [][KeysNext]_vars

(* One connection's read worker: the peer sends a stream of frames, split  *)
(* across socket reads in every possible way                               *)
ReaderInit ==
  /\ ClientInit({}, {}, {})
  /\ NoCache /\ NoCp /\ NoOther
  /\ \E input \in PeerStreams : ConnectionInit({}, {0}, input)

ReaderNext ==
  \/ ReaderRead
  \/ ReaderReceive
  \/ ReaderReadError
  \/ \E t \in DOMAIN cpc : CloseCAS(t)
  \/ \E t \in DOMAIN cpc : CloseChannel(t)
  \/ \E t \in DOMAIN cpc : CloseStoreTime(t)
  \/ \E t \in DOMAIN cpc : CloseNotify(t)

SpecReader == ReaderInit /\ [][ReaderNext]_vars

(* The read worker and a peer that does not keep to the framing: after at  *)
(* most one well-formed frame it sends a length prefix smaller than the    *)
(* prefix itself, followed by one more byte                                *)
ShortPrefixFrames ==
  {PutUint32(n) \o <<b>> : n \in 0..(Int32SizeInBytes - 1), b \in PayloadBytes}

ReceiveStreams == {f \o g : f \in {<<>>} \cup PeerFrames, g \in ShortPrefixFrames}

ReceiveInit ==
  /\ ClientInit({}, {}, {})
  /\ NoCache /\ NoCp /\ NoOther
  /\ \E input \in ReceiveStreams : ConnectionInit({}, {0}, input)

SpecReceive == ReceiveInit /\ [][ReaderNext]_vars

-----------------------------------------------------------------------------
(* Properties *)

Range(f) == {f[x] : x \in DOMAIN f}

NoDuplicates(q) == \A i, j \in 1..Len(q) : q[i] = q[j] => i = j

LifecycleEvents == <<LifecycleStateStarting, LifecycleStateStarted,
                     LifecycleStateShuttingDown, LifecycleStateShutDown>>

\* the position of a lifecycle event in the order starting, started, shutting-down, shut-down
EventRank(e) == CHOOSE i \in 1..4 : LifecycleEvents[i] = e

\* the lifecycle state whose transition an event announces
EventState(e) == <<starting, ready, stopping, stopped>>[EventRank(e)]

ShutdownSucceeded == {t \in DOMAIN dpc : dret[t] = "nil"}

\* C1: the lifecycle state only ever moves one step forward along
\* created -> starting -> ready -> stopping -> stopped: no step back, no state skipped.
C1_StateStepsForwardByOne == [][state' = state \/ state' = state + 1]_vars

C1_Witness ==
  /\ state = stopped
  /\ reached = {created, starting, ready, stopping, stopped}
  /\ \E t \in DOMAIN dpc : dpc[t] = "done" /\ dret[t] = ErrClientNotReady

\* C2: of all Shutdown calls exactly one returns nil and the others return
\* ErrClientNotReady, and every component is stopped exactly once.
C2_ShutdownOnce ==
  /\ Cardinality(ShutdownSucceeded) <= 1
  /\ \A t \in DOMAIN dpc : dpc[t] = "done" => dret[t] \in {"nil", ErrClientNotReady}
  /\ \A c \in Components : stops[c] <= 1
  /\ ( /\ \A t \in DOMAIN dpc : dpc[t] = "done"
       /\ \E t \in DOMAIN dpc : dcas[t] )
     => /\ Cardinality(ShutdownSucceeded) = 1
        /\ \A c \in Components : stops[c] = 1

C2_Witness ==
  /\ \A t \in DOMAIN dpc : dpc[t] = "done" /\ dcas[t]
  /\ \E t, u \in DOMAIN dpc : dret[t] = "nil" /\ dret[u] = ErrClientNotReady
  /\ \A c \in Components : stops[c] = 1

\* C3: an accessor that loaded a state other than ready returns ErrClientNotReady
\* and does not call the proxy manager; one that loaded ready calls its
\* proxy manager method.
C3_AccessorsRequireReady ==
  \A a \in DOMAIN apc :
    /\ apc[a] # "done" => pmCalled[a] = "none"
    /\ apc[a] = "done" =>
         IF aread[a] = ready
           THEN pmCalled[a] = ProxyManagerMethod(akind[a]) /\ aret[a] = "proxy"
           ELSE pmCalled[a] = "none" /\ aret[a] = ErrClientNotReady

C3_Witness ==
  \E a \in DOMAIN apc :
    /\ apc[a] = "done" /\ akind[a] = "GetList" /\ aread[a] = stopping
    /\ aret[a] = ErrClientNotReady /\ pmCalled[a] = "none"

\* C4: lifecycle events are published in the order starting, started,
\* shutting-down, shut-down, each only after the state made its transition.
C4_EventsInLifecycleOrder ==
  /\ \A i, j \in 1..Len(published) :
       i < j => EventRank(published[i]) < EventRank(published[j])
  /\ \A i \in 1..Len(published) : EventState(published[i]) \in reached

\* C5: a config lifecycle handler receives starting, started during a
\* successful start and shutting-down, shut-down during the Shutdown that
\* follows it, each once, before Shutdown stops the dispatchers.
C5_ConfigHandlerReceivesAll ==
  \A h \in ConfigHandlers :
    /\ NoDuplicates(handlerLog[h])
    /\ (~overlap /\ \E t \in DOMAIN spc : sret[t] = "nil")
         => IsPrefix(<<LifecycleStateStarting, LifecycleStateStarted>>, handlerLog[h])
    /\ \A t \in DOMAIN dpc :
         /\ (~overlap /\ dpc[t] \in {"isStop", "csStop", "cmStop", "store", "pubShutDown"})
              => handlerLog[h] = SubSeq(LifecycleEvents, 1, 3)
         /\ (~overlap /\ (dpc[t] \in {"edStop", "uedStop"} \/ dret[t] = "nil"))
              => handlerLog[h] = LifecycleEvents

C5_Witness ==
  /\ ~overlap
  /\ \E t \in DOMAIN dpc : dret[t] = "nil"
  /\ \A h \in ConfigHandlers : handlerLog[h] = LifecycleEvents
  /\ stops["eventDispatcher"] = 1 /\ stops["userEventDispatcher"] = 1

\* C6: start on a client whose state is not created returns
\* ErrClientCannotStart in one step that publishes nothing, starts nothing
\* and leaves the state unchanged.
C6_StartOnlyFromCreated ==
  [][\A t \in DOMAIN spc :
       (spc[t] = "call" /\ spc'[t] # "call" /\ state # created)
         => /\ spc'[t] = "done"
            /\ sret'[t] = ErrClientCannotStart
            /\ UNCHANGED <<state, reached, published, handlerLog, starts, stops>>]_vars

C6_Witness ==
  \E t, u \in DOMAIN spc :
    /\ sret[t] = ErrClientCannotStart /\ spc[t] = "done"
    /\ sret[u] = "nil"

\* C7: when connectionManager.Start fails, start returns the error, the
\* state never becomes ready, started is never published, the cluster
\* service and both dispatchers are stopped, and accessors and Shutdown
\* return ErrClientNotReady.
C7_FailedStartNeverReady ==
  cmFailed =>
    /\ ready \notin reached
    /\ state = starting
    /\ LifecycleStateStarted \notin Range(published)
    /\ \A h \in ConfigHandlers : LifecycleStateStarted \notin Range(handlerLog[h])
    /\ \A t \in DOMAIN spc :
         spc[t] = "done" =>
           /\ sret[t] = "err"
           /\ stops = [c \in Components |->
                         IF c \in {"clusterService", "eventDispatcher",
                                   "userEventDispatcher"} THEN 1 ELSE 0]
    /\ \A a \in DOMAIN apc :
         apc[a] = "done" => aret[a] = ErrClientNotReady /\ pmCalled[a] = "none"
    /\ \A t \in DOMAIN dpc : dpc[t] = "done" => dret[t] = ErrClientNotReady

C7_Witness ==
  /\ cmFailed
  /\ \A t \in DOMAIN spc : spc[t] = "done" /\ sret[t] = "err"
  /\ \A a \in DOMAIN apc : apc[a] = "done" /\ aread[a] = starting
  /\ \A t \in DOMAIN dpc : dpc[t] = "done"

\* C8: over any number of close calls the status goes from alive to closed
\* once, the closed channel is closed once, connectionClosed is called once,
\* a close call that finds the connection closed changes nothing, and the
\* connection never becomes alive again.
C8_CloseOnce ==
  /\ [](/\ closedCh <= 1
        /\ notified <= 1
        /\ Cardinality({t \in DOMAIN cpc : cwon[t]}) <= 1
        /\ (isAlive <=> \A t \in DOMAIN cpc : ~cwon[t])
        /\ (\A t \in DOMAIN cpc : cpc[t] = "done")
             => (closedCh = 1 /\ notified = 1 /\ ~isAlive))
  /\ [][/\ status = 1 => status' = 1
        /\ \A t \in DOMAIN cpc :
             (cpc[t] = "call" /\ cpc'[t] # "call" /\ status = 1)
               => /\ cpc'[t] = "done"
                  /\ UNCHANGED <<status, closedCh, closedTime, notified, cwon>>]_vars

C8_Witness ==
  /\ \A t \in DOMAIN cpc : cpc[t] = "done"
  /\ Cardinality(DOMAIN cpc) >= 2
  /\ closedCh = 1 /\ notified = 1 /\ status = 1

\* the frames of a byte sequence: each is as long as its little-endian
\* length prefix says, and a frame is present once all its bytes are
RECURSIVE FramesOf(_)
FramesOf(bytes) ==
  IF Len(bytes) >= 4 /\ Uint32(bytes) >= 4 /\ Uint32(bytes) <= Len(bytes)
    THEN <<SubSeq(bytes, 1, Uint32(bytes))>>
         \o FramesOf(SubSeq(bytes, Uint32(bytes) + 1, Len(bytes)))
    ELSE <<>>

\* The part of C9 on order: the frames delivered followed by the buffer are
\* the bytes read, and the frames delivered are the first frames of the
\* stream, in order, however the stream is split across reads.
C9_FramesInOrder ==
  /\ Flatten(delivered) \o readBuffer = SubSeq(stream, 1, nread)
  /\ IsPrefix(delivered, FramesOf(stream))

\* C9: the reader hands over a frame as soon as at least four bytes and all
\* the bytes its length prefix names are buffered, keeps an incomplete
\* frame, and delivers the frames in arrival order whatever the split of
\* the stream across reads.
C9_FramesDeliveredWhenComplete ==
  /\ C9_FramesInOrder
  /\ rpc = "read" => delivered = FramesOf(SubSeq(stream, 1, nread))

\* the bytes of the frames send accepted, in the order it accepted them
AcceptedBytes == Flatten([i \in 1..Len(accepted) |-> Buffer(accepted[i])])

\* C10: the bytes written to the socket are, after the preamble, the frames
\* in the order send accepted them, each frame complete (a partial write
\* resumed at the first unwritten byte) before any byte of the next.
C10_FramesWrittenInOrder ==
  /\ IsPrefix(socketOut, Preamble \o AcceptedBytes)
  /\ (wpc = "write" /\ ~socketBroken)
       => \E i \in 1..Len(accepted) :
            /\ request = accepted[i]
            /\ Len(socketOut) = Len(Preamble) + (i - 1) * FrameLen + writeIndex

C10_Witness ==
  /\ Len(accepted) = 2
  /\ wpc = "write" /\ request = accepted[2] /\ writeIndex = 1
  /\ ~socketBroken
  /\ socketOut = Preamble \o Buffer(accepted[1]) \o SubSeq(Buffer(accepted[2]), 1, 1)

\* C11: the bytes the socket has taken start with 'C','B','2' (or are a part
\* of them, when the socket failed under the preamble), so no frame byte
\* precedes the preamble; a worker runs only after the preamble was written;
\* a returned connection has both workers started; when the dial fails
\* newConnection returns nil with no byte written and no worker started.
C11_PreambleFirst ==
  /\ \/ socketOut = <<>>
     \/ IsPrefix(Preamble, socketOut)
     \/ socketBroken /\ IsPrefix(socketOut, Preamble)
  /\ npc \in {"startWriter", "startReader", "returned"}
       => socketBroken \/ IsPrefix(Preamble, socketOut)
  /\ (wpc # "unstarted" \/ rpc # "unstarted")
       => npc \in {"startReader", "returned"}
  /\ npc = "returned" => wpc # "unstarted" /\ rpc # "unstarted"
  /\ npc = "nil" => /\ wpc = "unstarted" /\ rpc = "unstarted"
                    /\ socketOut = <<>>
                    /\ \A m \in DOMAIN mpc : mpc[m] = "call"

\* a frame has been written in full after the preamble on a returned connection
C11_Witness ==
  /\ npc = "returned"
  /\ Len(accepted) >= 1
  /\ socketOut = Preamble \o Buffer(accepted[1])

\* newConnection returned nil
C11_WitnessDialFailed == npc = "nil"

\* C12: a mutating operation whose key transform succeeded invalidates the
\* key exactly once, and only after its remote call has returned, whether
\* that call succeeded or failed; none invalidates before or without it.
C12_InvalidateOnceAfterRemote ==
  \A w \in DOMAIN writes :
    /\ writes[w].pc \in {"call", "remote", "invalidate"} => writes[w].inv = 0
    /\ writes[w].pc = "done" =>
         writes[w].inv = (IF writes[w].err = "key" THEN 0 ELSE 1)
    /\ writes[w].inv = 1 => writes[w].err \in {"none", "remote"}

\* an operation whose remote call failed has returned, the key invalidated
C12_Witness ==
  \E w \in DOMAIN writes :
    /\ writes[w].pc = "done"
    /\ writes[w].err = "remote"
    /\ writes[w].inv = 1
    /\ slot.st = "absent"

\* C13: with one Put on the key and no other writer, a Get that starts
\* after the Put returned yields the value put, whatever other Get calls
\* did meanwhile, and once the Put has returned the near cache holds no
\* other value for the key.
C13_GetAfterPutYieldsValue ==
  \A w \in DOMAIN writes :
    (writes[w].kind = "Put" /\ writes[w].pc = "done" /\ writes[w].err = "none")
      => /\ \A g \in DOMAIN gets :
              (gets[g].pc = "done" /\ gets[g].err = "none" /\ gets[g].afterWrites)
                => gets[g].ret = writes[w].val
         /\ slot.st = "present" => slot.val = StoredForm(writes[w].val)

\* a Get fetched the old value before the Put and did not install it, and a
\* Get that started after the Put returned fetched and installed the new one
C13_Witness ==
  \E w \in DOMAIN writes, g1, g2 \in DOMAIN gets :
    /\ writes[w].pc = "done" /\ writes[w].err = "none"
    /\ gets[g1].pc = "done" /\ ~gets[g1].afterWrites /\ gets[g1].fetches = 1
    /\ gets[g1].err = "none" /\ gets[g1].fetched # writes[w].val
    /\ ~gets[g1].installed
    /\ gets[g2].pc = "done" /\ gets[g2].afterWrites /\ gets[g2].installed
    /\ gets[g2].ret = writes[w].val
    /\ slot.st = "present"

NoInvalidateCalled ==
  /\ \A g \in DOMAIN gets : gets[g].inv = 0
  /\ \A w \in DOMAIN writes : writes[w].inv = 0

GetActs(g) == gets'[g].pc # gets[g].pc

\* C14: callers that hold a reservation hold different reservation ids; of
\* the Get misses between two invalidations at most one publish installs a
\* value; a publish that does not install leaves the record as it was; and
\* every Get miss that returns without error returns the value it fetched.
C14_OnePublishWins ==
  /\ [](/\ \A g1, g2 \in DOMAIN gets :
             (g1 # g2 /\ gets[g1].rid # RecordNotReserved)
               => gets[g1].rid # gets[g2].rid
        /\ NoInvalidateCalled
             => Cardinality({g \in DOMAIN gets : gets[g].installed}) <= 1
        /\ \A g \in DOMAIN gets :
             (gets[g].pc = "done" /\ gets[g].err = "none" /\ ~gets[g].hit)
               => gets[g].ret = gets[g].fetched)
  /\ [][\A g \in DOMAIN gets :
          (gets[g].pc = "publish" /\ GetActs(g) /\ ~gets'[g].installed)
            => slot' = slot]_vars

\* two Get misses fetched the same non-nil value; one publish installed it
C14_Witness ==
  \E g1, g2 \in DOMAIN gets :
    /\ g1 # g2 /\ NoInvalidateCalled
    /\ gets[g1].pc = "done" /\ gets[g1].fetches = 1 /\ gets[g1].installed
    /\ gets[g2].pc = "done" /\ gets[g2].fetches = 1 /\ ~gets[g2].installed
    /\ gets[g1].ret = gets[g1].fetched /\ gets[g2].ret = gets[g2].fetched
    /\ gets[g2].ret # Nil

\* the object a stored value stands for
ObjectOf(stored) == CHOOSE v \in {Nil} \cup Values : StoredForm(v) = stored

\* C15: a Get that finds a present record makes no remote call and returns
\* the object the record stands for; a Get that finds none and returns
\* without error made exactly one remote fetch and returns what it fetched;
\* no Get fetches twice.
C15_HitServedMissFetchesOnce ==
  \A g \in DOMAIN gets :
    /\ gets[g].fetches <= 1
    /\ gets[g].hit => gets[g].fetches = 0
    /\ (gets[g].pc = "done" /\ gets[g].err = "none") =>
         IF gets[g].hit
           THEN gets[g].ret = ObjectOf(gets[g].seen)
           ELSE gets[g].fetches = 1 /\ gets[g].ret = gets[g].fetched

\* a Get was served a value kept in binary form
C15_Witness ==
  \E g \in DOMAIN gets :
    /\ gets[g].pc = "done" /\ gets[g].hit /\ gets[g].err = "none"
    /\ format = "binary" /\ gets[g].ret \in Values /\ gets[g].fetches = 0

\* C16: a Get that failed inside getFromRemote has invalidated the key once
\* before it returned and leaves no record reserved under its id; no other
\* Get invalidates; a publish installs a value only into the record that
\* holds the caller's own reservation id.
C16_FailedMissInvalidates ==
  /\ [](\A g \in DOMAIN gets :
          /\ ~gets[g].leftReserved
          /\ gets[g].pc = "done"
               => gets[g].inv = (IF gets[g].err = "miss" THEN 1 ELSE 0)
          /\ gets[g].pc # "done" => gets[g].inv = 0)
  /\ [][\A g \in DOMAIN gets :
          (gets[g].pc = "publish" /\ GetActs(g) /\ slot' # slot)
            => /\ HoldsReservation(NearCacheKey, gets[g].rid)
               /\ slot'.st = "present" /\ slot'.rid = gets[g].rid]_vars

\* a Get whose remote fetch or publish failed has returned
C16_Witness ==
  \E g \in DOMAIN gets :
    /\ gets[g].pc = "done" /\ gets[g].err = "miss"
    /\ gets[g].fetches = 1 /\ gets[g].inv = 1 /\ slot.st = "absent"

\* C17: once the client has handled an invalidation event for the key, the
\* record that was in the near cache is not served any more: no Get is
\* answered from a record that was present when such an event was handled.
C17_InvalidatedRecordNotServed ==
  \A g \in DOMAIN gets : ~gets[g].stale

\* C18: invalidation events are applied in increasing sequence order per
\* partition, and an event whose sequence leaves a gap after the last seen
\* one flushes the partition's records: no record that was present when
\* such an event was handled is still in the near cache.
C18_GapFlushesPartition ==
  /\ lastSeen <= serverSeq
  /\ ~gapRecord

AtCount(s) == Cardinality({i \in 1..Len(s) : s[i] = "@"})

NoOuterSpace(s) == s = TrimSpace(s)

\* the part of a name before its first '@' and its group, blanks and case aside
ObjectPart(name) == TrimSpace(Before(TrimSpace(name), Index(TrimSpace(name))))
GroupPart(name) == ToLower(TrimSpace(After(TrimSpace(name), Index(TrimSpace(name)))))

\* both names of the call have been computed: the name was accepted
NameAccepted(c) == cpCalls[c].pc = "createGroup"

\* C19: of an accepted name, the object name is the name itself when it has
\* no '@' and the part before the '@' otherwise; with the group 'default'
\* (in any case) the proxy name is that of the bare object name; a name
\* with the group 'metadata' (in any case) or with more than one '@' is not
\* accepted; neither the proxy name nor the object name begins or ends with
\* whitespace.
C19_NameParsing ==
  \A c \in DOMAIN cpCalls :
    NameAccepted(c) =>
      LET name == cpCalls[c].name IN
      /\ AtCount(name) <= 1
      /\ AtCount(name) = 0 => cpCalls[c].obj = TrimSpace(name)
      /\ AtCount(name) = 1 =>
           /\ GroupPart(name) # metadataCpGroupName
           /\ cpCalls[c].obj = ObjectPart(name)
           /\ GroupPart(name) = defaultGroupName => cpCalls[c].pxy = ObjectPart(name)
      /\ NoOuterSpace(cpCalls[c].pxy)
      /\ NoOuterSpace(cpCalls[c].obj)

\* the names C20 calls malformed
Malformed(name) ==
  \/ AtCount(name) > 1
  \/ /\ AtCount(name) = 1
     /\ \/ GroupPart(name) = metadataCpGroupName
        \/ GroupPart(name) = <<>>
        \/ ObjectPart(name) = <<>>

\* C20: GetAtomicLong with a malformed name returns an error value, having
\* sent no invocation and created or cached no proxy.
C20_MalformedNameRejected ==
  \A c \in DOMAIN cpCalls :
    Malformed(cpCalls[c].name) =>
      /\ cpCalls[c].sent = 0
      /\ cpCalls[c].created = 0
      /\ \A p \in proxies : p.id # cpCalls[c].proxy
      /\ cpCalls[c].ret \in {"none", "error"}
      /\ cpCalls[c].pc = "done" => cpCalls[c].ret = "error"

\* the rows of every page, in page order and then row order
RECURSIVE RowsFrom(_, _)
RowsFrom(ps, p) ==
  IF p > Len(ps) THEN <<>>
  ELSE [i \in 1..ps[p].rows |-> <<p, i>>] \o RowsFrom(ps, p + 1)

AllRows == RowsFrom(qr.pages, 1)

\* C21: over any sequential or concurrent Close calls the close-query request
\* is sent at most once; a Close that finds the result closed returns nil
\* and sends nothing; a Close called after Next returned io.EOF at the end of
\* the last page sends nothing.
C21_CloseQueryOnce ==
  /\ qr.closeSent <= 1
  /\ \A t \in DOMAIN closes :
       /\ closes[t].sawClosed => ~closes[t].sent /\ closes[t].ret \in {"none", "nil"}
       /\ closes[t].sawClosed /\ closes[t].pc = "done" => closes[t].ret = "nil"
       /\ closes[t].afterEOF => ~closes[t].sent

C21_Witness ==
  /\ qr.closeSent = 1
  /\ qr.eof
  /\ \E t, u \in DOMAIN closes :
       /\ closes[t].sent /\ closes[t].pc = "done"
       /\ closes[u].afterEOF /\ closes[u].pc = "done" /\ closes[u].ret = "nil"

\* C22: successive Next calls return every row of every page exactly once in
\* page order then row order; the next page is fetched only when the current
\* page is exhausted and is not the last; Next returns io.EOF only after all
\* rows, and every Next after the last row returns io.EOF.
C22_RowsInOrderThenEOF ==
  /\ IsPrefix(qr.out, AllRows)
  /\ ~qr.early
  /\ \A n \in DOMAIN nexts :
       /\ nexts[n].ret = "EOF" => qr.out = AllRows
       /\ nexts[n].ret # "panic"

\* C25: every GetAtomicLong call on the proxy manager that gets past the
\* name parsing issues exactly one create-CP-group invocation, also when a
\* proxy is already cached under the name.
C25_OneCreateGroupPerCall ==
  \A c \in DOMAIN cpCalls :
    /\ cpCalls[c].sent <= 1
    /\ cpCalls[c].pc \in {"rlookup", "lock"} => cpCalls[c].sent = 1
    /\ cpCalls[c].pc = "done" /\ cpCalls[c].ret # "panic" => cpCalls[c].sent = 1

C25_Witness ==
  \E c \in DOMAIN cpCalls :
    /\ cpCalls[c].pc = "done"
    /\ cpCalls[c].ret = "proxy"
    /\ cpCalls[c].created = 0
    /\ cpCalls[c].sent = 1

\* C29: Stats.Ratio returns hits / misses * 100 when misses is not 0,
\* positive infinity when misses = 0 and hits > 0, and NaN when both are 0.
C29_Ratio ==
  stats.pc = "done" =>
    LET hits == stats.s.Hits
        misses == stats.s.Misses
        r == stats.ret
    IN /\ misses # 0 =>
            /\ r.kind = "number"
            /\ r.den # 0
            /\ r.num * misses = hits * 100 * r.den
       /\ misses = 0 /\ hits > 0 => r = Inf
       /\ misses = 0 /\ hits = 0 => r = NaN

C29_Witness ==
  /\ stats.pc = "done"
  /\ stats.s.Hits = 3
  /\ stats.s.Misses = 2
  /\ stats.ret.kind = "number"
  /\ stats.ret.num = 150 * stats.ret.den

\* the callers of the near-cached map operations, of every kind
MapCalls ==
  {gets[g] : g \in DOMAIN gets} \cup {writes[w] : w \in DOMAIN writes}
    \cup {contains[c] : c \in DOMAIN contains}

\* C26: every near-cached map operation holds the transformed key (the data
\* form when SerializeKeys is set, the raw key otherwise) once its transform
\* succeeded, records exist only under that key, and an invalidation removes
\* the record under that key; an operation whose transform failed returns
\* the error with no remote call and no change to the near cache.
C26_SameKeyTransform ==
  /\ [](/\ \A k \in CacheKeys \ {NearCacheKey} : records[k] = AbsentRecord
        /\ \A x \in MapCalls :
             /\ x.pc # "call" /\ x.err # "key" => x.key = NearCacheKey
             /\ x.err = "key" => x.pc = "done"
        /\ \A g \in DOMAIN gets :
             gets[g].err = "key" => gets[g].fetches = 0 /\ gets[g].inv = 0
        /\ \A w \in DOMAIN writes :
             writes[w].err = "key" => ~writes[w].called /\ writes[w].inv = 0
        /\ \A c \in DOMAIN contains :
             contains[c].err = "key" => ~contains[c].called)
  /\ [][/\ MapCalls' # MapCalls /\ (\E x \in MapCalls' \ MapCalls : x.err = "key")
             => records' = records /\ remote' = remote
        /\ \A w \in DOMAIN writes :
             writes'[w].inv = writes[w].inv + 1 => records'[NearCacheKey] = AbsentRecord
        /\ \A g \in DOMAIN gets :
             gets'[g].inv = gets[g].inv + 1 => records'[NearCacheKey] = AbsentRecord]_vars

C26_Witness ==
  /\ ncm.serializeKeys
  /\ \E w \in DOMAIN writes :
       writes[w].pc = "done" /\ writes[w].inv = 1 /\ writes[w].key = ToData(UserKey)
  /\ \E g \in DOMAIN gets : gets[g].installed
  /\ \E c \in DOMAIN contains : contains[c].err = "key"

\* C27: newNearCacheMap with the preloader enabled neither panics nor fails
\* because of preloading, and the near cache it returns is empty.
C27_PreloadIsNoOp ==
  ncm.preloader =>
    /\ ncm.ret # "panic"
    /\ ncm.pc = "preload" => \A k \in CacheKeys : records[k] = AbsentRecord


\* the listener map of a kind, and the one a call works on
MapNamed(m) ==
  IF m = "lifecycle" THEN lifecyleListenerMap ELSE membershipListenerMap

ListenerMap(op) == MapNamed(MapOf(op))

\* the events a listener of the given kind is subscribed to
EventsOf(m) ==
  IF m = "lifecycle" THEN {eventLifecycleEventStateChanged}
                     ELSE {EventMembersAdded, EventMembersRemoved}

\* every mapped UUID has its own internal id, the subscriptions under that
\* id are the ones of its listener, all with one handler, and complete
\* unless a removal holding the lock is taking them out
MappedOneToOne ==
  /\ \A m1, m2 \in {"lifecycle", "membership"} :
       \A u1 \in DOMAIN MapNamed(m1) : \A u2 \in DOMAIN MapNamed(m2) :
         MapNamed(m1)[u1] = MapNamed(m2)[u2] => (m1 = m2 /\ u1 = u2)
  /\ \A m \in {"lifecycle", "membership"} : \A u \in DOMAIN MapNamed(m) :
       /\ \A s \in subs : s.id = MapNamed(m)[u] => s.event \in EventsOf(m)
       /\ \A s1, s2 \in subs :
            (s1.id = MapNamed(m)[u] /\ s2.id = s1.id) => s1.handler = s2.handler
       /\ mapMu[m] = 0 =>
            \A e \in EventsOf(m) : \E s \in subs : s.event = e /\ s.id = MapNamed(m)[u]

\* a successful Add returned a UUID that maps to the id it subscribed its
\* handler under, until a Remove call with that UUID takes it out
AddReturnsMappedUUID ==
  \A c \in DOMAIN lcalls :
    (lcalls[c].op \in {"AddLifecycleListener", "AddMembershipListener"}
       /\ lcalls[c].pc = "done" /\ lcalls[c].ret = "nil") =>
      \/ /\ lcalls[c].uuid \in DOMAIN ListenerMap(lcalls[c].op)
         /\ ListenerMap(lcalls[c].op)[lcalls[c].uuid] = lcalls[c].id
         /\ \A e \in EventsOf(MapOf(lcalls[c].op)) :
              [event |-> e, id |-> lcalls[c].id, handler |-> UserHandler(c)] \in subs
      \/ \E r \in DOMAIN lcalls :
           /\ MapOf(lcalls[r].op) = MapOf(lcalls[c].op)
           /\ lcalls[r].found /\ lcalls[r].uuid = lcalls[c].uuid
           /\ lcalls[r].handler = UserHandler(c)

\* a Remove that returned after finding the UUID left no subscription under
\* its id and no mapping, and its handler has received nothing since
RemovedIsGone ==
  \A r \in DOMAIN lcalls :
    (lcalls[r].pc = "done" /\ lcalls[r].found) =>
      /\ \A s \in subs : s.id # lcalls[r].id
      /\ lcalls[r].uuid \notin DOMAIN ListenerMap(lcalls[r].op)
      /\ LogOf(lcalls[r].handler) = lcalls[r].logAtReturn

\* a subscription leaves the dispatcher only by a Remove call that found
\* the UUID of its id, or by nothing else
OnlyRemovedLeaves ==
  \A s \in subs :
    s \notin subs' =>
      \E r \in DOMAIN lcalls : lcalls'[r].found /\ lcalls'[r].id = s.id

\* C23: an Add call returns a UUID mapped to exactly one internal id that no
\* other live subscription uses; a Remove call with that UUID unsubscribes
\* exactly that handler (a membership handler from both events) and deletes
\* the mapping, and the handler receives nothing published after it returned
C23_ListenerUUIDs ==
  /\ [](MappedOneToOne /\ AddReturnsMappedUUID /\ RemovedIsGone)
  /\ [][OnlyRemovedLeaves]_vars

\* the configured lifecycle listener was removed after start's two events
\* and both events of Shutdown were published later, while a membership
\* listener that was added stays subscribed and has received an event
C23_Witness ==
  /\ \E r \in DOMAIN lcalls :
       /\ lcalls[r].op = "RemoveLifecycleListener"
       /\ lcalls[r].pc = "done" /\ lcalls[r].found
       /\ lcalls[r].handler \in ConfigHandlers
       /\ lcalls[r].logAtReturn = <<LifecycleStateStarting, LifecycleStateStarted>>
  /\ Len(published) = 4
  /\ \E c \in DOMAIN lcalls :
       /\ lcalls[c].op = "AddMembershipListener"
       /\ lcalls[c].pc = "done" /\ lcalls[c].ret = "nil"
       /\ Len(received[UserHandler(c)]) > 0

\* C24: a Remove call with a UUID that has no listener (never known, or
\* removed before) returns nil and changes neither the UUID maps nor the
\* dispatcher's subscriptions
C24_RemoveIdempotent ==
  [][\A c \in DOMAIN lcalls :
       (lcalls[c].pc = "lock" /\ lcalls'[c].pc # "lock"
          /\ lcalls[c].uuid \notin DOMAIN ListenerMap(lcalls[c].op)) =>
         /\ lcalls'[c].pc = "done"
         /\ lcalls'[c].ret = "nil"
         /\ UNCHANGED <<subs, lifecyleListenerMap, membershipListenerMap>>]_vars

\* two Remove calls with the UUID of one listener have returned: the first
\* found it, the second did not
C24_Witness ==
  \E r1, r2 \in DOMAIN lcalls :
    /\ r1 # r2
    /\ lcalls[r1].pc = "done" /\ lcalls[r2].pc = "done"
    /\ lcalls[r1].uuid = lcalls[r2].uuid /\ lcalls[r1].uuid # 0
    /\ lcalls[r1].op = lcalls[r2].op
    /\ lcalls[r1].found /\ ~lcalls[r2].found
    /\ lcalls[r2].ret = "nil"

\* what a handler is called with when the event is published
Delivered(ev, h) ==
  IF ev.name = EventConnected
    THEN IF Subscribed(eventLifecycleEventStateChanged, h)
           THEN <<LifecycleStateClientConnected>> ELSE <<>>
  ELSE IF ev.name = EventDisconnected
    THEN IF Subscribed(eventLifecycleEventStateChanged, h)
           THEN <<LifecycleStateClientDisconnected>> ELSE <<>>
  ELSE IF Subscribed(ev.name, h)
    THEN [i \in 1..Len(ev.members) |->
            [state |-> IF ev.name = EventMembersAdded THEN "added" ELSE "removed",
             member |-> ev.members[i]]]
    ELSE <<>>

\* C28: a connected or disconnected event reaches every lifecycle listener
\* as one client-connected or client-disconnected event, and a members-added
\* or members-removed event reaches every membership listener once per
\* member, in the order of the event's members
C28_ClusterEventsDelivered ==
  [][clusterLog' # clusterLog =>
       /\ \A h \in ConfigHandlers :
            handlerLog'[h] = handlerLog[h] \o Delivered(clusterLog'.last, h)
       /\ DOMAIN received' = DOMAIN received
       /\ \A h \in DOMAIN received :
            received'[h] = received[h] \o Delivered(clusterLog'.last, h)]_vars

\* a membership listener was called for member 2 and then member 1 of one
\* event
C28_Witness ==
  \E c \in DOMAIN lcalls :
    /\ lcalls[c].op = "AddMembershipListener"
    /\ UserHandler(c) \in DOMAIN received
    /\ Len(received[UserHandler(c)]) = 2
    /\ received[UserHandler(c)][1].member = 2
    /\ received[UserHandler(c)][2].member = 1

\* C32: an accessor that returns while the state is stopping or stopped
\* returns ErrClientNotReady and hands out no proxy
C32_NoProxyOnceStopping ==
  [][\A a \in DOMAIN apc :
       (apc[a] = "loaded" /\ apc'[a] = "done" /\ state' \in {stopping, stopped})
         => (aret'[a] = ErrClientNotReady /\ pmCalled'[a] = "none")]_vars


\* the create-group invocation of the call was sent and failed
GroupFailed(c) == cpCalls[c].sent > 0 /\ cpCalls[c].gid # "set"

\* C33: a GetAtomicLong call whose create-group invocation failed returns an
\* error and neither creates nor returns a proxy, and no cached proxy has
\* an unset group id
C33_GroupFailureSurfaced ==
  /\ \A c \in DOMAIN cpCalls :
       (cpCalls[c].pc = "done" /\ GroupFailed(c)) =>
         /\ cpCalls[c].ret = "error"
         /\ cpCalls[c].created = 0
         /\ cpCalls[c].proxy = 0
  /\ \A p \in proxies : p.gid = "set"

\* C35: concurrent GetAtomicLong calls on one proxy manager create at most
\* one proxy for a proxy name and every successful call returns that one;
\* a creation that fails caches nothing
C35_OneProxyPerName ==
  /\ [](/\ \A p, q \in proxies : p.name = q.name => p = q
        /\ \A c \in DOMAIN cpCalls :
             (cpCalls[c].pc = "done" /\ cpCalls[c].ret = "proxy") =>
               [name |-> cpCalls[c].pxy, id |-> cpCalls[c].proxy] \in
                 {[name |-> p.name, id |-> p.id] : p \in proxies}
        /\ \A c, d \in DOMAIN cpCalls :
             (/\ cpCalls[c].pc = "done" /\ cpCalls[c].ret = "proxy"
              /\ cpCalls[d].pc = "done" /\ cpCalls[d].ret = "proxy"
              /\ cpCalls[c].pxy = cpCalls[d].pxy) =>
               cpCalls[c].proxy = cpCalls[d].proxy)
  /\ [][\A c \in DOMAIN cpCalls :
          (cpCalls[c].pc = "lock" /\ cpCalls'[c].ret = "error")
            => proxies' = proxies]_vars

\* one call was given "ob" and the other "ob@default"; the creation of the
\* first failed, the second created the proxy afterwards
C35_Witness ==
  \E c, d \in DOMAIN cpCalls :
    /\ cpCalls[c].name # cpCalls[d].name
    /\ cpCalls[c].pxy = cpCalls[d].pxy
    /\ cpCalls[c].pc = "done" /\ cpCalls[c].ret = "error"
    /\ cpCalls[d].pc = "done" /\ cpCalls[d].ret = "proxy"
    /\ cpCalls[d].created = 1
    /\ Cardinality(proxies) = 1


\* C36: no frame is accepted and then lost: once the writer has terminated,
\* no frame for which send returned true is still waiting in pending (such
\* a frame is neither written to the socket nor reported on sendingError)
C36_AcceptedNotLost == wpc = "exit" => pending = <<>>


\* C37: every iteration of the loop of receiveMessage that hands over a
\* frame removes at least one byte from the read buffer (so the loop ends),
\* and the frames handed over followed by the buffer are the bytes received
C37_ReceiveConsumes ==
  /\ [](Flatten(delivered) \o readBuffer = SubSeq(stream, 1, nread))
  /\ [][delivered' # delivered => Len(readBuffer') < Len(readBuffer)]_vars


\* C38: Next never reads a row outside the current page, also right after
\* fetching a page without rows, and a Next that returns nil has copied one
\* row of the current page into dest
C38_NextStaysInPage ==
  /\ [](\A n \in DOMAIN nexts : nexts[n].pc # "panicked")
  /\ [][\A n \in DOMAIN nexts :
          (nexts[n].pc = "copy" /\ nexts'[n].pc = "call")
            => /\ nexts'[n].ret = "nil"
               /\ qr.index < RowCount
               /\ qr'.out = Append(qr.out, <<qr.cur, qr.index + 1>>)]_vars


\* the attributes Connection.String reads: Load().(T) on an atomic.Value
\* that was never stored, or * on a nil pointer, panics
StringReads ==
  {"status", "connectionId", "endpoint", "lastRead", "lastWrite", "closedTime",
   "lastHeartbeatRequested", "lastHeartbeatReceived", "serverHazelcastVersion"}

\* C40: in every state of a connection newConnection returned, every
\* attribute Connection.String reads holds a value
C40_StringAttributesStored == npc = "returned" => StringReads \subseteq assigned


WriterTerminates == (closedCh > 0) ~> (wpc = "exit")

\* a failed write sends the frame's correlation id on sendingError once:
\* the writer leaves the report with the id appended, and nothing else
\* appends to the channel
ReportedOnce ==
  [][/\ (wpc = "report" /\ wpc' # "report")
          => (sendingError' = Append(sendingError, request) /\ wpc' = "select")
     /\ Len(sendingError') > Len(sendingError) => wpc = "report"]_vars

\* C39: after close the writer worker terminates in the end and takes no
\* further frame to write to the socket, also when close runs while the
\* worker reports a failed write; a failed write reports the frame's
\* correlation id exactly once
C39_WriterStopsAfterClose ==
  /\ WriterTerminates
  /\ [][closedCh > 0 => ~(wpc = "select" /\ wpc' = "write")]_vars
  /\ ReportedOnce

=============================================================================
